---- MODULE Spec2Model ----
(***************************************************************************)
(* FRI verifier of plonky2: verify_fri_proof and the functions it calls,   *)
(* over a small prime field with a quadratic extension.                    *)
(***************************************************************************)
EXTENDS Integers, Sequences, FiniteSets, TLC

\* ------------------------------------------------------------------ helpers
\* 0-based indexing of a Rust slice / Vec.
At(s, i) == s[i + 1]

Pow2(k) == 2 ^ k

\* Iterator::collect: the sequence with every element evaluated.
collect(f) == f \o <<>>

RECURSIVE SumSeq(_)
SumSeq(s) == IF s = <<>> THEN 0 ELSE Head(s) + SumSeq(Tail(s))

\* ------------------------------------------------------------------ base field
\* A prime field F (Field::order); the 2-adic structure of its unit group.
P == 97
TWO_ADICITY == 5
MULTIPLICATIVE_GROUP_GENERATOR == 5
POWER_OF_TWO_GENERATOR == 28
\* usize::BITS
USIZE_BITS == 64

F_ZERO == 0
F_ONE == 1

FAdd(a, b) == (a + b) % P
FSub(a, b) == (a - b + P) % P
FMul(a, b) == (a * b) % P
FNeg(a) == (P - a) % P

\* util::bits_u64: 64 - n.leading_zeros().
RECURSIVE bits_u64(_)
bits_u64(n) == IF n = 0 THEN 0 ELSE 1 + bits_u64(n \div 2)

\* u64::leading_zeros of to_canonical_u64().
leading_zeros(n) == 64 - bits_u64(n)

\* Field::square
square(x) == FMul(x, x)

\* Field::exp_power_of_2: square power_log times.
RECURSIVE exp_power_of_2(_, _)
exp_power_of_2(x, power_log) ==
    IF power_log = 0 THEN x ELSE exp_power_of_2(square(x), power_log - 1)

\* Field::exp_u64: square-and-multiply over the bits j = 0 .. bits_u64(power)-1.
RECURSIVE exp_u64_loop(_, _, _, _, _)
exp_u64_loop(current, product, power, j, nbits) ==
    IF j >= nbits THEN product
    ELSE exp_u64_loop(square(current),
                      IF (power \div Pow2(j)) % 2 # 0 THEN FMul(product, current) ELSE product,
                      power, j + 1, nbits)

exp_u64(x, power) == exp_u64_loop(x, F_ONE, power, 0, bits_u64(power))

\* Field::try_inverse of a non-zero element (Fermat); Field::inverse panics on zero,
\* which callers model as the "panic" outcome.
try_inverse(x) == exp_u64(x, P - 2)

\* Field::primitive_root_of_unity
primitive_root_of_unity(n_log) == exp_power_of_2(POWER_OF_TWO_GENERATOR, TWO_ADICITY - n_log)

\* F::order().bits(): the bit length of the field's order.
order_bits == bits_u64(P)

\* ------------------------------------------------------------------ util
\* util::log2_strict (the argument is a power of two wherever the verifier calls it).
RECURSIVE log2_strict(_)
log2_strict(n) == IF n <= 1 THEN 0 ELSE 1 + log2_strict(n \div 2)

is_power_of_two(n) == n >= 1 /\ Pow2(log2_strict(n)) = n

\* bit b of n
Bit(n, b) == IF b >= 31 THEN 0 ELSE (n \div Pow2(b)) % 2

\* util::reverse_bits: n.reverse_bits().overflowing_shr(usize::BITS - num_bits).0
\* overflowing_shr masks the shift amount to the width, so num_bits = 0 shifts by 0.
\* Bit i of the result is bit (63 - i - s) of n, s the effective shift.
RECURSIVE reverse_bits_sum(_, _, _)
reverse_bits_sum(n, s, i) ==
    IF i > USIZE_BITS - 1 - s THEN 0
    ELSE (IF Bit(n, USIZE_BITS - 1 - i - s) = 1 THEN Pow2(i) ELSE 0)
         + reverse_bits_sum(n, s, i + 1)

reverse_bits(n, num_bits) ==
    reverse_bits_sum(n, (USIZE_BITS - num_bits) % USIZE_BITS, 0)

\* util::BIT_REVERSE_6BIT
BIT_REVERSE_6BIT ==
    << 0, 32, 16, 48,  8, 40, 24, 56,
       4, 36, 20, 52, 12, 44, 28, 60,
       2, 34, 18, 50, 10, 42, 26, 58,
       6, 38, 22, 54, 14, 46, 30, 62,
       1, 33, 17, 49,  9, 41, 25, 57,
       5, 37, 21, 53, 13, 45, 29, 61,
       3, 35, 19, 51, 11, 43, 27, 59,
       7, 39, 23, 55, 15, 47, 31, 63 >>

\* Vec::swap
Swap(arr, i, j) == [arr EXCEPT ![i + 1] = arr[j + 1], ![j + 1] = arr[i + 1]]

\* util::reverse_index_bits_in_place_small: for src in 0..n, swap with its
\* n_power-bit reversal when src < dst.
RECURSIVE reverse_index_bits_in_place_small_loop(_, _, _)
reverse_index_bits_in_place_small_loop(arr, n_power, src) ==
    IF src >= Len(arr) THEN arr
    ELSE LET dst == At(BIT_REVERSE_6BIT, src) \div Pow2(6 - n_power)
         IN reverse_index_bits_in_place_small_loop(
                IF src < dst THEN Swap(arr, src, dst) ELSE arr, n_power, src + 1)

reverse_index_bits_in_place_small(arr, n_power) ==
    reverse_index_bits_in_place_small_loop(arr, n_power, 0)

\* util::reverse_index_bits_in_place_large: for each src_chunk (64 sources), for
\* each src_lo, swap src with dst when src < dst; the low bits of dst are the
\* reversal of the chunk number, the high bits come from the table.  A swap
\* keeps the length, so the length tests always succeed; they make the array
\* a value before the next iteration starts.
reverse_index_bits_in_place_large(arr, n_power) ==
    LET dst_lo_shr_amt == 64 - (n_power - 6)
        dst_hi_shl_amt == n_power - 6
        RECURSIVE src_lo_loop(_, _, _)
        src_lo_loop(a, src_chunk, src_lo) ==
            IF src_lo >= Pow2(6) THEN a
            ELSE LET src == src_chunk * Pow2(6) + src_lo
                     dst_lo == reverse_bits_sum(src_chunk, dst_lo_shr_amt, 0)
                     dst_hi == At(BIT_REVERSE_6BIT, src_lo) * Pow2(dst_hi_shl_amt)
                     dst == dst_hi + dst_lo
                     swapped == IF src < dst THEN Swap(a, src, dst) ELSE a
                 IN IF Len(swapped) = Len(arr)
                    THEN src_lo_loop(swapped, src_chunk, src_lo + 1)
                    ELSE swapped
        RECURSIVE src_chunk_loop(_, _)
        src_chunk_loop(a, src_chunk) ==
            IF src_chunk >= Len(arr) \div Pow2(6) THEN a
            ELSE LET chunk_done == src_lo_loop(a, src_chunk, 0)
                 IN IF Len(chunk_done) = Len(arr)
                    THEN src_chunk_loop(chunk_done, src_chunk + 1)
                    ELSE chunk_done
    IN src_chunk_loop(arr, 0)

\* util::reverse_index_bits_in_place (log2_strict panics on other lengths; the
\* callers model the panic).
reverse_index_bits_in_place(arr) ==
    LET n_power == log2_strict(Len(arr))
    IN IF n_power <= 6
       THEN reverse_index_bits_in_place_small(arr, n_power)
       ELSE reverse_index_bits_in_place_large(arr, n_power)

\* reverse_index_bits with the two halves of the source index exchanged on the
\* large path.
reverse_index_bits_exchanged(arr) ==
    LET n == Len(arr)
        n_power == log2_strict(n)
    IN IF n_power <= 6
       THEN collect([i \in 1..n |-> At(arr, At(BIT_REVERSE_6BIT, i - 1) \div Pow2(6 - n_power))])
       ELSE collect([i \in 1..n |->
                LET i_chunk == (i - 1) \div Pow2(6)
                    i_lo == (i - 1) % Pow2(6)
                    src_lo == reverse_bits_sum(i_chunk, 64 - (n_power - 6), 0)
                IN At(arr, At(BIT_REVERSE_6BIT, i_lo) + src_lo * Pow2(6))])

\* util::reverse_index_bits with reverse_index_bits_small and
\* reverse_index_bits_large: result[i] = arr[src], src taken from the table
\* (small) or from the table and the reversal of the chunk number (large).
reverse_index_bits(arr) ==
    LET n == Len(arr)
        n_power == log2_strict(n)
    IN IF n_power <= 6
       THEN LET dst_shr_amt == 6 - n_power
            IN collect([i \in 1..n |-> At(arr, At(BIT_REVERSE_6BIT, i - 1) \div Pow2(dst_shr_amt))])
       ELSE LET src_lo_shr_amt == 64 - (n_power - 6)
                src_hi_shl_amt == n_power - 6
            IN collect([i \in 1..n |->
                   LET i_chunk == (i - 1) \div Pow2(6)
                       i_lo == (i - 1) % Pow2(6)
                       src_lo == reverse_bits_sum(i_chunk, src_lo_shr_amt, 0)
                       src_hi == At(BIT_REVERSE_6BIT, i_lo) * Pow2(src_hi_shl_amt)
                   IN At(arr, src_hi + src_lo)])

\* ------------------------------------------------------------------ extension field
\* F::Extension = F[X] / (X^2 - EXT_W), an element a + b X is <<a, b>>.
EXT_W == 5
EXT_ZERO == <<0, 0>>
EXT_ONE == <<1, 0>>

\* FieldExtension::from_basefield
from_basefield(a) == <<a, 0>>

ExtAdd(u, v) == <<FAdd(u[1], v[1]), FAdd(u[2], v[2])>>
ExtSub(u, v) == <<FSub(u[1], v[1]), FSub(u[2], v[2])>>
ExtMul(u, v) ==
    <<FAdd(FMul(u[1], v[1]), FMul(EXT_W, FMul(u[2], v[2]))),
      FAdd(FMul(u[1], v[2]), FMul(u[2], v[1]))>>

\* inverse of a non-zero element: (a - b X) / (a^2 - W b^2).
ExtInv(u) ==
    LET norm == FSub(FMul(u[1], u[1]), FMul(EXT_W, FMul(u[2], u[2])))
        ninv == try_inverse(norm)
    IN <<FMul(u[1], ninv), FMul(FNeg(u[2]), ninv)>>

ExtDiv(u, v) == ExtMul(u, ExtInv(v))

RECURSIVE ExtExp(_, _)
ExtExp(u, k) == IF k = 0 THEN EXT_ONE ELSE ExtMul(u, ExtExp(u, k - 1))

\* Field::batch_multiplicative_inverse over the extension field (Montgomery's
\* trick); the entries are non-zero wherever the verifier calls it.
RECURSIVE cumulative_products(_, _, _)
cumulative_products(x, i, buf) ==
    IF i >= Len(x) THEN buf
    ELSE cumulative_products(x, i + 1, Append(buf, ExtMul(At(buf, i - 1), At(x, i))))

\* The back-substitution without its loop: only the last and the first entry
\* are rewritten.
batch_inverse_back_stale(x, buf, a_inv, i) == [buf EXCEPT ![1] = ExtMul(At(x, 1), a_inv)]

RECURSIVE batch_inverse_back(_, _, _, _)
batch_inverse_back(x, buf, a_inv, i) ==
    IF i < 1 THEN [buf EXCEPT ![1] = ExtMul(At(x, 1), a_inv)]
    ELSE LET a2 == ExtMul(At(x, i + 1), a_inv)
         IN batch_inverse_back(x, [buf EXCEPT ![i + 1] = ExtMul(At(buf, i - 1), a2)], a2, i - 1)

batch_multiplicative_inverse(x) ==
    LET n == Len(x) IN
    IF n = 0 THEN <<>>
    ELSE IF n = 1 THEN <<ExtInv(At(x, 0))>>
    ELSE LET buf == cumulative_products(x, 1, <<At(x, 0)>>)
             a_inv == ExtInv(At(buf, n - 1))
             buf1 == [buf EXCEPT ![n] = ExtMul(At(buf, n - 2), a_inv)]
         IN batch_inverse_back(x, buf1, a_inv, n - 2)

\* ------------------------------------------------------------------ interpolation
\* A point is <<x, y>> with x, y extension elements.
RECURSIVE ExtProduct(_)
ExtProduct(s) == IF s = <<>> THEN EXT_ONE ELSE ExtMul(Head(s), ExtProduct(Tail(s)))

RECURSIVE ExtSum(_)
ExtSum(s) == IF s = <<>> THEN EXT_ZERO ELSE ExtAdd(Head(s), ExtSum(Tail(s)))

\* interpolation::barycentric_weights: w_i = 1 / prod_{j # i} (x_i - x_j).
barycentric_weights(points) ==
    LET n == Len(points)
        denom(i) == ExtProduct(collect([j \in 1..n |->
                        IF j = i THEN EXT_ONE ELSE ExtSub(points[i][1], points[j][1])]))
    IN batch_multiplicative_inverse(collect([i \in 1..n |-> denom(i)]))

\* interpolation::interpolate: the value at x of the interpolant of points,
\* l(x) * sum_i w_i / (x - x_i) * y_i, or y_i itself when x = x_i.
interpolate(points, x, weights) ==
    LET n == Len(points)
        hits == {i \in 1..n : points[i][1] = x}
    IN IF hits # {}
       THEN points[CHOOSE i \in hits : \A j \in hits : i <= j][2]
       ELSE LET l_x == ExtProduct(collect([i \in 1..n |-> ExtSub(x, points[i][1])]))
                term(i) == ExtMul(ExtDiv(weights[i], ExtSub(x, points[i][1])), points[i][2])
            IN ExtMul(l_x, ExtSum(collect([i \in 1..n |-> term(i)])))

\* PolynomialCoeffs::eval (Horner), coefficients and point in the extension.
RECURSIVE poly_eval(_, _)
poly_eval(coeffs, x) ==
    IF coeffs = <<>> THEN EXT_ZERO
    ELSE ExtAdd(Head(coeffs), ExtMul(x, poly_eval(Tail(coeffs), x)))

\* ------------------------------------------------------------------ fri::verifier
\* g.powers() zipped with the reordered evals: the points (coset_start * g^i, evals[i]).
coset_points(coset_start, g, evals) ==
    collect([i \in 1..Len(evals) |->
        <<from_basefield(FMul(coset_start, exp_u64(g, i - 1))), evals[i]>>])

\* compute_evaluation with the coset taken to start at x itself.
compute_evaluation_unshifted(x, x_index_within_coset, arity_bits, evals, beta) ==
    LET g == primitive_root_of_unity(arity_bits)
        evals_r == reverse_index_bits_in_place(evals)
        points == coset_points(x, g, evals_r)
    IN interpolate(points, beta, barycentric_weights(points))

\* fri::verifier::compute_evaluation
compute_evaluation(x, x_index_within_coset, arity_bits, evals, beta) ==
    LET arity == Pow2(arity_bits)
        g == primitive_root_of_unity(arity_bits)
        evals_r == reverse_index_bits_in_place(evals)
        rev_x_index_within_coset == reverse_bits(x_index_within_coset, arity_bits)
        coset_start == FMul(x, exp_u64(g, arity - rev_x_index_within_coset))
        points == coset_points(coset_start, g, evals_r)
    IN interpolate(points, beta, barycentric_weights(points))

\* extension::flatten: the base-field coordinates of a vector of extension elements.
RECURSIVE flatten(_)
flatten(evals) ==
    IF evals = <<>> THEN <<>> ELSE <<Head(evals)[1], Head(evals)[2]>> \o flatten(Tail(evals))

\* ------------------------------------------------------------------ hash::merkle_proofs
\* The hash is collision-free: a digest is the serialised preimage.
hash_or_noop(leaf_data) == <<0>> \o leaf_data
two_to_one(left, right) == <<1, Len(left)>> \o left \o right

\* verify_merkle_proof_to_cap: walk from the leaf digest up the siblings, one index
\* bit per level, and compare with the cap entry the remaining index selects.
RECURSIVE merkle_walk(_, _, _)
merkle_walk(index, digest, siblings) ==
    IF siblings = <<>> THEN <<index, digest>>
    ELSE merkle_walk(index \div 2,
                     IF index % 2 = 1 THEN two_to_one(Head(siblings), digest)
                     ELSE two_to_one(digest, Head(siblings)),
                     Tail(siblings))

verify_merkle_proof_to_cap(leaf_data, leaf_index, merkle_cap, merkle_proof) ==
    LET w == merkle_walk(leaf_index, hash_or_noop(leaf_data), merkle_proof)
    IN w[1] < Len(merkle_cap) /\ w[2] = At(merkle_cap, w[1])

\* ------------------------------------------------------------------ parameters
\* FriParams::lde_bits, lde_size, total_arities, final_poly_len.
lde_bits(params) == params.degree_bits + params.config.rate_bits
lde_size(params) == Pow2(lde_bits(params))
total_arities(params) == SumSeq(params.reduction_arity_bits)
final_poly_len(params) == Pow2(params.degree_bits - total_arities(params))

\* fri::proof: the number of salt elements appended to a blinded oracle's leaf.
SALT_SIZE == 4
salt_size(salted) == IF salted THEN SALT_SIZE ELSE 0

\* FriInitialTreeProof::unsalted_eval
unsalted_eval(initial_trees_proof, oracle_index, poly_index, salted) ==
    LET evals == At(initial_trees_proof.evals_proofs, oracle_index)[1]
    IN At(SubSeq(evals, 1, Len(evals) - salt_size(salted)), poly_index)

\* ------------------------------------------------------------------ shape
\* validate_fri_proof_shape: the round count, one step per arity-bits entry with
\* 2^arity_bits evaluations each, and the final polynomial's length.
RECURSIVE consumed_bits(_, _)
consumed_bits(arity_bits_seq, i) ==
    IF i = 0 THEN 0 ELSE consumed_bits(arity_bits_seq, i - 1) + At(arity_bits_seq, i - 1)

round_shape_ok(round_proof, params) ==
    /\ Len(round_proof.steps) = Len(params.reduction_arity_bits)
    /\ \A k \in 1..Len(params.reduction_arity_bits) :
          Len(round_proof.steps[k].evals) = Pow2(params.reduction_arity_bits[k])

validate_fri_proof_shape(proof, instance, params) ==
    /\ Len(proof.query_round_proofs) = params.config.num_query_rounds
    /\ \A r \in 1..Len(proof.query_round_proofs) :
          round_shape_ok(proof.query_round_proofs[r], params)
    /\ Len(proof.final_poly) = final_poly_len(params)

\* ------------------------------------------------------------------ proof of work
\* The check without the (64 - order bits) term.
fri_verify_proof_of_work_no_offset(fri_pow_response, config) ==
    leading_zeros(fri_pow_response) >= config.proof_of_work_bits

\* The check with a strict comparison.
fri_verify_proof_of_work_strict(fri_pow_response, config) ==
    leading_zeros(fri_pow_response) > config.proof_of_work_bits + (64 - order_bits)

\* fri_verify_proof_of_work: the ensure! condition.
fri_verify_proof_of_work(fri_pow_response, config) ==
    leading_zeros(fri_pow_response) >= config.proof_of_work_bits + (64 - order_bits)

\* recursive_verifier fri_verify_proof_of_work: the count given to assert_leading_zeros.
circuit_pow_leading_zeros(config) ==
    config.proof_of_work_bits + (64 - order_bits)

\* ------------------------------------------------------------------ reduce-initial
\* ReducingFactor::reduce: sum_i alpha^i v_i (Horner from the last element).
RECURSIVE reduce(_, _)
reduce(alpha, vals) ==
    IF vals = <<>> THEN EXT_ZERO
    ELSE ExtAdd(Head(vals), ExtMul(alpha, reduce(alpha, Tail(vals))))

\* ReducingFactor::shift after a reduce of count elements: x * alpha^count.
shift(alpha, count, x) == ExtMul(ExtExp(alpha, count), x)

\* PlonkOracle::R.index
PLONK_ORACLE_R_INDEX == 4

nb_r_polys_of(polynomials) ==
    Cardinality({p \in 1..Len(polynomials) : polynomials[p].oracle_index = PLONK_ORACLE_R_INDEX})

\* PrecomputedReducedOpenings::from_os_and_alpha
from_os_and_alpha(openings, alpha, is_zk) ==
    LET nb_r_polys == (IF is_zk THEN 1 ELSE 0) * 2
    IN collect([b \in 1..Len(openings.batches) |->
          LET vals == openings.batches[b].values
              last_values == Len(vals) - nb_r_polys * (IF b = 1 THEN 1 ELSE 0)
          IN reduce(alpha, SubSeq(vals, 1, last_values))])

\* Field::exp_power_of_2 on an extension element.
RECURSIVE ext_exp_power_of_2(_, _)
ext_exp_power_of_2(u, power_log) ==
    IF power_log = 0 THEN u ELSE ext_exp_power_of_2(ExtMul(u, u), power_log - 1)

\* The zk branch with every blinding polynomial scaled by one.
RECURSIVE add_r_polys_unit_scale(_, _, _, _, _, _, _)
add_r_polys_unit_scale(sum, rpolys, i, instance, initial_trees_proof, subgroup_x, params) ==
    IF i >= Len(rpolys) THEN sum
    ELSE LET p == At(rpolys, i)
             salted == params.hiding /\ At(instance.oracles, p.oracle_index).blinding
             eval == unsalted_eval(initial_trees_proof, p.oracle_index, p.polynomial_index, salted)
         IN add_r_polys_unit_scale(ExtAdd(sum, from_basefield(eval)),
                                   rpolys, i + 1, instance, initial_trees_proof, subgroup_x, params)

\* The zk branch of fri_combine_initial: sum += R_i(x) * shift_val for the trailing
\* polynomials of the first batch, shift_val = [i = 0] + x^(2^(i * degree_bits)) * i.
RECURSIVE add_r_polys(_, _, _, _, _, _, _)
add_r_polys(sum, rpolys, i, instance, initial_trees_proof, subgroup_x, params) ==
    IF i >= Len(rpolys) THEN sum
    ELSE LET p == At(rpolys, i)
             salted == params.hiding /\ At(instance.oracles, p.oracle_index).blinding
             eval == unsalted_eval(initial_trees_proof, p.oracle_index, p.polynomial_index, salted)
             shift_val == ExtAdd(from_basefield(IF i = 0 THEN 1 ELSE 0),
                                 ExtMul(ext_exp_power_of_2(subgroup_x, i * params.degree_bits),
                                        from_basefield(i % P)))
         IN add_r_polys(ExtAdd(sum, ExtMul(from_basefield(eval), shift_val)),
                        rpolys, i + 1, instance, initial_trees_proof, subgroup_x, params)

\* The loop with the running sum multiplied by alpha alone before each batch.
RECURSIVE combine_batches_unit_shift(_, _, _, _, _, _, _, _)
combine_batches_unit_shift(idx, sum, instance, initial_trees_proof, alpha, subgroup_x, reduced_openings_at_point, params) ==
    IF idx >= Len(instance.batches) \/ idx >= Len(reduced_openings_at_point)
    THEN [panic |-> FALSE, value |-> sum]
    ELSE LET batch == At(instance.batches, idx)
             polynomials == batch.polynomials
             nb_r_polys == nb_r_polys_of(polynomials)
             last_poly == Len(polynomials) - nb_r_polys * (IF idx = 0 THEN 1 ELSE 0)
             evals == collect([k \in 1..last_poly |->
                         LET p == polynomials[k]
                             salted == params.hiding /\ At(instance.oracles, p.oracle_index).blinding
                         IN from_basefield(unsalted_eval(initial_trees_proof, p.oracle_index,
                                                         p.polynomial_index, salted))])
             numerator == ExtSub(reduce(alpha, evals), At(reduced_openings_at_point, idx))
             denominator == ExtSub(subgroup_x, batch.point)
         IN IF denominator = EXT_ZERO
            THEN [panic |-> TRUE, value |-> EXT_ZERO]
            ELSE LET sum1 == ExtAdd(ExtMul(alpha, sum), ExtDiv(numerator, denominator))
                     sum2 == IF params.hiding /\ idx = 0
                             THEN add_r_polys(sum1, SubSeq(polynomials, last_poly + 1, Len(polynomials)),
                                              0, instance, initial_trees_proof, subgroup_x, params)
                             ELSE sum1
                 IN combine_batches_unit_shift(idx + 1, sum2, instance, initial_trees_proof, alpha,
                                               subgroup_x, reduced_openings_at_point, params)

\* fri_combine_initial: the loop over zip(instance.batches, reduced_openings_at_point).
\* The result is [panic, value]: numerator / denominator panics when x equals the
\* batch's point (Field::inverse of zero).
RECURSIVE combine_batches(_, _, _, _, _, _, _, _)
combine_batches(idx, sum, instance, initial_trees_proof, alpha, subgroup_x, reduced_openings_at_point, params) ==
    IF idx >= Len(instance.batches) \/ idx >= Len(reduced_openings_at_point)
    THEN [panic |-> FALSE, value |-> sum]
    ELSE LET batch == At(instance.batches, idx)
             polynomials == batch.polynomials
             is_zk == params.hiding
             nb_r_polys == nb_r_polys_of(polynomials)
             last_poly == Len(polynomials) - nb_r_polys * (IF idx = 0 THEN 1 ELSE 0)
             evals == collect([k \in 1..last_poly |->
                         LET p == polynomials[k]
                             salted == params.hiding /\ At(instance.oracles, p.oracle_index).blinding
                         IN from_basefield(unsalted_eval(initial_trees_proof, p.oracle_index,
                                                         p.polynomial_index, salted))])
             reduced_evals == reduce(alpha, evals)
             numerator == ExtSub(reduced_evals, At(reduced_openings_at_point, idx))
             denominator == ExtSub(subgroup_x, batch.point)
             shifted == shift(alpha, last_poly, sum)
         IN IF denominator = EXT_ZERO
            THEN [panic |-> TRUE, value |-> EXT_ZERO]
            ELSE LET sum1 == ExtAdd(shifted, ExtDiv(numerator, denominator))
                     sum2 == IF is_zk /\ idx = 0
                             THEN add_r_polys(sum1, SubSeq(polynomials, last_poly + 1, Len(polynomials)),
                                              0, instance, initial_trees_proof, subgroup_x, params)
                             ELSE sum1
                 IN combine_batches(idx + 1, sum2, instance, initial_trees_proof, alpha,
                                    subgroup_x, reduced_openings_at_point, params)

fri_combine_initial(instance, initial_trees_proof, alpha, subgroup_x, precomputed_reduced_evals, params) ==
    combine_batches(0, EXT_ZERO, instance, initial_trees_proof, alpha,
                    from_basefield(subgroup_x), precomputed_reduced_evals, params)

\* The initial check made for the first oracle only.
fri_verify_initial_proof_first_only(x_index, initial_trees_proof, initial_merkle_caps) ==
    verify_merkle_proof_to_cap(initial_trees_proof.evals_proofs[1][1], x_index,
                               initial_merkle_caps[1],
                               initial_trees_proof.evals_proofs[1][2])

\* fri_verify_initial_proof: one Merkle check per zip(evals_proofs, initial_merkle_caps).
fri_verify_initial_proof(x_index, initial_trees_proof, initial_merkle_caps) ==
    \A o \in 1..Len(initial_trees_proof.evals_proofs) :
        o <= Len(initial_merkle_caps) =>
            verify_merkle_proof_to_cap(initial_trees_proof.evals_proofs[o][1], x_index,
                                       initial_merkle_caps[o],
                                       initial_trees_proof.evals_proofs[o][2])

\* ------------------------------------------------------------------ query round
\* The error kinds of the verifier's rejections.
ShapeMismatch == "ShapeMismatch"
ProofOfWorkFailure == "ProofOfWorkFailure"
MerkleAuthenticationFailure == "MerkleAuthenticationFailure"
FoldingConsistencyFailure == "FoldingConsistencyFailure"
FinalPolynomialMismatch == "FinalPolynomialMismatch"

\* A walk state: where the round stands and its (x_index, subgroup_x, old_eval).
Walk(pc_, err_, x_index_, subgroup_x_, old_eval_) ==
    [pc |-> pc_, err |-> err_, x_index |-> x_index_, subgroup_x |-> subgroup_x_,
     old_eval |-> old_eval_]

\* subgroup_x taken at x_index without the bit reversal.
initial_subgroup_x_unreversed(x_index, n) ==
    FMul(MULTIPLICATIVE_GROUP_GENERATOR,
         exp_u64(primitive_root_of_unity(log2_strict(n)), x_index))

\* fri_verifier_query_round, lines 217-218: subgroup[x_index].
initial_subgroup_x(x_index, n) ==
    LET log_n == log2_strict(n)
    IN FMul(MULTIPLICATIVE_GROUP_GENERATOR,
            exp_u64(primitive_root_of_unity(log_n), reverse_bits(x_index, log_n)))

\* fri_verifier_query_round up to the folding loop: the initial-tree Merkle checks,
\* subgroup_x and the reduce-initial value.
query_round_init(instance, challenges, precomputed, initial_merkle_caps, x_index_, n, round_proof, params) ==
    IF ~fri_verify_initial_proof(x_index_, round_proof.initial_trees_proof, initial_merkle_caps)
    THEN Walk("rejected", MerkleAuthenticationFailure, x_index_, F_ZERO, EXT_ZERO)
    ELSE LET sx == initial_subgroup_x(x_index_, n)
             comb == fri_combine_initial(instance, round_proof.initial_trees_proof,
                                         challenges.fri_alpha, sx, precomputed, params)
         IN IF comb.panic
            THEN Walk("panicked", "none", x_index_, sx, EXT_ZERO)
            ELSE Walk("walk", "none", x_index_, sx, comb.value)

\* The loop iteration without the ensure! on evals[x_index_within_coset].
fold_step_unchecked(proof, challenges, round_proof, params, step, x_index_, subgroup_x_, old_eval_) ==
    LET arity_bits == At(params.reduction_arity_bits, step)
        arity == Pow2(arity_bits)
        evals == At(round_proof.steps, step).evals
        coset_index == x_index_ \div arity
        x_index_within_coset == x_index_ % arity
    IN IF FALSE
       THEN Walk("rejected", FoldingConsistencyFailure, x_index_, subgroup_x_, old_eval_)
       ELSE LET new_eval == compute_evaluation(subgroup_x_, x_index_within_coset, arity_bits,
                                               evals, At(challenges.fri_betas, step))
            IN IF ~verify_merkle_proof_to_cap(flatten(evals), coset_index,
                                              At(proof.commit_phase_merkle_caps, step),
                                              At(round_proof.steps, step).merkle_proof)
               THEN Walk("rejected", MerkleAuthenticationFailure, x_index_, subgroup_x_, new_eval)
               ELSE Walk("walk", "none", coset_index,
                         exp_power_of_2(subgroup_x_, arity_bits), new_eval)

\* The loop iteration carrying the low bits forward as the next index.
fold_step_low_bits_index(proof, challenges, round_proof, params, step, x_index_, subgroup_x_, old_eval_) ==
    LET arity_bits == At(params.reduction_arity_bits, step)
        arity == Pow2(arity_bits)
        evals == At(round_proof.steps, step).evals
        coset_index == x_index_ \div arity
        x_index_within_coset == x_index_ % arity
    IN IF At(evals, x_index_within_coset) # old_eval_
       THEN Walk("rejected", FoldingConsistencyFailure, x_index_, subgroup_x_, old_eval_)
       ELSE LET new_eval == compute_evaluation(subgroup_x_, x_index_within_coset, arity_bits,
                                               evals, At(challenges.fri_betas, step))
            IN IF ~verify_merkle_proof_to_cap(flatten(evals), coset_index,
                                              At(proof.commit_phase_merkle_caps, step),
                                              At(round_proof.steps, step).merkle_proof)
               THEN Walk("rejected", MerkleAuthenticationFailure, x_index_, subgroup_x_, new_eval)
               ELSE Walk("walk", "none", x_index_within_coset,
                         exp_power_of_2(subgroup_x_, arity_bits), new_eval)

\* The loop iteration authenticating the evals at the unsplit index.
fold_step_unsplit_leaf(proof, challenges, round_proof, params, step, x_index_, subgroup_x_, old_eval_) ==
    LET arity_bits == At(params.reduction_arity_bits, step)
        arity == Pow2(arity_bits)
        evals == At(round_proof.steps, step).evals
        coset_index == x_index_ \div arity
        x_index_within_coset == x_index_ % arity
    IN IF At(evals, x_index_within_coset) # old_eval_
       THEN Walk("rejected", FoldingConsistencyFailure, x_index_, subgroup_x_, old_eval_)
       ELSE LET new_eval == compute_evaluation(subgroup_x_, x_index_within_coset, arity_bits,
                                               evals, At(challenges.fri_betas, step))
            IN IF ~verify_merkle_proof_to_cap(flatten(evals), x_index_,
                                              At(proof.commit_phase_merkle_caps, step),
                                              At(round_proof.steps, step).merkle_proof)
               THEN Walk("rejected", MerkleAuthenticationFailure, x_index_, subgroup_x_, new_eval)
               ELSE Walk("walk", "none", coset_index,
                         exp_power_of_2(subgroup_x_, arity_bits), new_eval)

\* The iteration with the Merkle check made before the consistency check.
fold_step_merkle_first(proof, challenges, round_proof, params, step, x_index_, subgroup_x_, old_eval_) ==
    LET arity_bits == At(params.reduction_arity_bits, step)
        arity == Pow2(arity_bits)
        evals == At(round_proof.steps, step).evals
        coset_index == x_index_ \div arity
        x_index_within_coset == x_index_ % arity
    IN IF ~verify_merkle_proof_to_cap(flatten(evals), coset_index,
                                      At(proof.commit_phase_merkle_caps, step),
                                      At(round_proof.steps, step).merkle_proof)
       THEN Walk("rejected", MerkleAuthenticationFailure, x_index_, subgroup_x_, old_eval_)
       ELSE IF At(evals, x_index_within_coset) # old_eval_
            THEN Walk("rejected", FoldingConsistencyFailure, x_index_, subgroup_x_, old_eval_)
            ELSE Walk("walk", "none", coset_index, exp_power_of_2(subgroup_x_, arity_bits),
                      compute_evaluation(subgroup_x_, x_index_within_coset, arity_bits,
                                         evals, At(challenges.fri_betas, step)))

\* fri_verifier_query_round, one iteration of the loop over reduction_arity_bits.
fold_step(proof, challenges, round_proof, params, step, x_index_, subgroup_x_, old_eval_) ==
    LET arity_bits == At(params.reduction_arity_bits, step)
        arity == Pow2(arity_bits)
        evals == At(round_proof.steps, step).evals
        coset_index == x_index_ \div arity
        x_index_within_coset == x_index_ % arity
    IN IF At(evals, x_index_within_coset) # old_eval_
       THEN Walk("rejected", FoldingConsistencyFailure, x_index_, subgroup_x_, old_eval_)
       ELSE LET new_eval == compute_evaluation(subgroup_x_, x_index_within_coset, arity_bits,
                                               evals, At(challenges.fri_betas, step))
            IN IF ~verify_merkle_proof_to_cap(flatten(evals), coset_index,
                                              At(proof.commit_phase_merkle_caps, step),
                                              At(round_proof.steps, step).merkle_proof)
               THEN Walk("rejected", MerkleAuthenticationFailure, x_index_, subgroup_x_, new_eval)
               ELSE Walk("walk", "none", coset_index,
                         exp_power_of_2(subgroup_x_, arity_bits), new_eval)

\* The final check made against the constant term alone.
final_check_constant_term(proof, subgroup_x_, old_eval_) ==
    poly_eval(proof.final_poly, EXT_ZERO) = old_eval_

\* fri_verifier_query_round, the final check after the loop.
final_check(proof, subgroup_x_, old_eval_) ==
    poly_eval(proof.final_poly, from_basefield(subgroup_x_)) = old_eval_

\* ------------------------------------------------------------------ prover
\* The commitment side the verifier's inputs come from: low-degree extensions
\* stored in bit-reversed order over the coset generator * H, one Merkle tree
\* per oracle and per folded layer.
domain_point(idx, log_size, consumed) ==
    FMul(exp_power_of_2(MULTIPLICATIVE_GROUP_GENERATOR, consumed),
         exp_u64(primitive_root_of_unity(log_size), reverse_bits(idx, log_size)))

RECURSIVE base_poly_eval(_, _)
base_poly_eval(coeffs, x) ==
    IF coeffs = <<>> THEN 0 ELSE FAdd(Head(coeffs), FMul(x, base_poly_eval(Tail(coeffs), x)))

\* MerkleTree: the digest of node k at a level (level 0 holds the leaf digests).
RECURSIVE merkle_node(_, _, _)
merkle_node(leaves, level, k) ==
    IF level = 0 THEN hash_or_noop(At(leaves, k))
    ELSE two_to_one(merkle_node(leaves, level - 1, 2 * k),
                    merkle_node(leaves, level - 1, 2 * k + 1))

merkle_cap(leaves, cap_height) ==
    collect([k \in 1..Pow2(cap_height) |->
        merkle_node(leaves, log2_strict(Len(leaves)) - cap_height, k - 1)])

\* MerkleTree::prove: the sibling of the path node at each level below the cap.
merkle_prove(leaves, idx, cap_height) ==
    collect([lvl \in 1..(log2_strict(Len(leaves)) - cap_height) |->
        LET k == idx \div Pow2(lvl - 1)
        IN merkle_node(leaves, lvl - 1, IF k % 2 = 0 THEN k + 1 ELSE k - 1)])

\* polynomial arithmetic over the extension, coefficients lowest first
epoly_scale(c, f) == collect([j \in 1..Len(f) |-> ExtMul(c, f[j])])
epoly_add(f, g) == collect([j \in 1..Len(f) |-> ExtAdd(f[j], g[j])])

\* (f - f(z)) / (X - z) by synthetic division, padded to the length of f.
RECURSIVE synth_div(_, _, _, _)
synth_div(f, z, k, carry) ==
    IF k < 2 THEN <<>>
    ELSE LET q == ExtAdd(f[k], ExtMul(z, carry))
         IN Append(synth_div(f, z, k - 1, q), q)

epoly_quotient(f, z) == synth_div(f, z, Len(f), EXT_ZERO) \o <<EXT_ZERO>>

\* A setup is what prover and verifier share before the proof exists:
\* [params, instance, polys, alpha, betas, indices], polys[o][k] the base-field
\* coefficients of polynomial k of oracle o.
setup_poly(setup, p) == At(At(setup.polys, p.oracle_index), p.polynomial_index)

to_ext_poly(f) == collect([j \in 1..Len(f) |-> from_basefield(f[j])])

\* sum_i alpha^i f_i over the polynomials of a batch
RECURSIVE batch_poly(_, _, _)
batch_poly(setup, polynomials, k) ==
    IF k > Len(polynomials) THEN collect([j \in 1..Pow2(setup.params.degree_bits) |-> EXT_ZERO])
    ELSE epoly_add(to_ext_poly(setup_poly(setup, polynomials[k])),
                   epoly_scale(setup.alpha, batch_poly(setup, polynomials, k + 1)))

\* The batched quotient polynomial the FRI layers start from:
\* acc = alpha^(k_b) * acc + (F_b - F_b(z_b)) / (X - z_b) over the batches in order.
RECURSIVE layer0_coeffs(_, _)
layer0_coeffs(setup, b) ==
    IF b = 0 THEN collect([j \in 1..Pow2(setup.params.degree_bits) |-> EXT_ZERO])
    ELSE LET batch == setup.instance.batches[b]
         IN epoly_add(epoly_scale(ExtExp(setup.alpha, Len(batch.polynomials)),
                                  layer0_coeffs(setup, b - 1)),
                      epoly_quotient(batch_poly(setup, batch.polynomials, 1), batch.point))

\* One FRI fold of the coefficients: chunks of arity reduced with powers of beta.
fold_coeffs(coeffs, arity, beta) ==
    collect([k \in 1..(Len(coeffs) \div arity) |->
        reduce(beta, SubSeq(coeffs, (k - 1) * arity + 1, k * arity))])

RECURSIVE layer_coeffs(_, _)
layer_coeffs(setup, i) ==
    IF i = 0 THEN layer0_coeffs(setup, Len(setup.instance.batches))
    ELSE fold_coeffs(layer_coeffs(setup, i - 1),
                     Pow2(At(setup.params.reduction_arity_bits, i - 1)),
                     At(setup.betas, i - 1))

\* The leaves of layer i's tree: one leaf per coset, the flattened evaluations of
\* the layer's polynomial at the coset's points in bit-reversed order.
layer_leaves(setup, i) ==
    LET consumed == consumed_bits(setup.params.reduction_arity_bits, i)
        log_size == lde_bits(setup.params) - consumed
        arity == Pow2(At(setup.params.reduction_arity_bits, i))
        coeffs == layer_coeffs(setup, i)
    IN collect([c \in 1..(Pow2(log_size) \div arity) |->
          collect([k \in 1..arity |->
              poly_eval(coeffs, from_basefield(
                  domain_point((c - 1) * arity + (k - 1), log_size, consumed)))])])

\* The leaves of oracle o's tree: the evaluations of its polynomials (and the salt
\* of a blinded oracle) at each domain point.
oracle_leaves(setup, o) ==
    LET opolys == setup.polys[o]
        salted == setup.params.hiding /\ setup.instance.oracles[o].blinding
    IN collect([j \in 1..lde_size(setup.params) |->
          [k \in 1..Len(opolys) |->
              base_poly_eval(opolys[k], domain_point(j - 1, lde_bits(setup.params), 0))]
          \o [k \in 1..salt_size(salted) |-> (j + k) % P]])

RECURSIVE index_at_step(_, _, _)
index_at_step(arity_bits_seq, x_index_, i) ==
    IF i = 0 THEN x_index_
    ELSE index_at_step(arity_bits_seq, x_index_, i - 1) \div Pow2(At(arity_bits_seq, i - 1))

honest_round(setup, x_index_) ==
    LET ch == setup.params.config.cap_height
        ab == setup.params.reduction_arity_bits
    IN [initial_trees_proof |->
           [evals_proofs |->
               [o \in 1..Len(setup.instance.oracles) |->
                   LET leaves == oracle_leaves(setup, o)
                   IN <<At(leaves, x_index_), merkle_prove(leaves, x_index_, ch)>>]],
        steps |->
           [i \in 1..Len(ab) |->
               LET leaves == layer_leaves(setup, i - 1)
                   coset_index == index_at_step(ab, x_index_, i)
               IN [evals |-> At(leaves, coset_index),
                   merkle_proof |-> merkle_prove(collect([c \in 1..Len(leaves) |-> flatten(leaves[c])]),
                                                 coset_index, ch)]]]

honest_proof(setup) ==
    LET ch == setup.params.config.cap_height
        ab == setup.params.reduction_arity_bits
    IN [commit_phase_merkle_caps |->
           [i \in 1..Len(ab) |->
               LET leaves == layer_leaves(setup, i - 1)
               IN merkle_cap(collect([c \in 1..Len(leaves) |-> flatten(leaves[c])]), ch)],
        query_round_proofs |->
           [r \in 1..Len(setup.indices) |-> honest_round(setup, setup.indices[r])],
        final_poly |-> SubSeq(layer_coeffs(setup, Len(ab)), 1, final_poly_len(setup.params))]

honest_caps(setup) ==
    [o \in 1..Len(setup.instance.oracles) |->
        merkle_cap(oracle_leaves(setup, o), setup.params.config.cap_height)]

honest_openings(setup) ==
    [batches |->
        [b \in 1..Len(setup.instance.batches) |->
            [values |->
                [k \in 1..Len(setup.instance.batches[b].polynomials) |->
                    poly_eval(to_ext_poly(setup_poly(setup, setup.instance.batches[b].polynomials[k])),
                              setup.instance.batches[b].point)]]]]

\* ------------------------------------------------------------------ inputs
\* Bounds of the explored inputs.
DegreeBits == 2
MaxCapHeight == 1
NumRounds == 2
MaxSeed == 2
MaxPowBits == 8

\* The arity-bits sequences the parameters may hold: their sum is at most degree_bits.
AritySeqs ==
    {q \in UNION {[1..len -> 1..DegreeBits] : len \in 0..DegreeBits} : SumSeq(q) <= DegreeBits}

make_params(arity, cap_height) ==
    [config |-> [num_query_rounds |-> NumRounds, proof_of_work_bits |-> 0,
                 cap_height |-> cap_height, rate_bits |-> 1],
     hiding |-> FALSE,
     degree_bits |-> DegreeBits,
     reduction_arity_bits |-> arity]

\* Two oracles of one polynomial each, opened together at z.
make_instance(z) ==
    [oracles |-> <<[num_polys |-> 1, blinding |-> FALSE], [num_polys |-> 1, blinding |-> FALSE]>>,
     batches |-> <<[point |-> z,
                    polynomials |-> <<[oracle_index |-> 0, polynomial_index |-> 0],
                                      [oracle_index |-> 1, polynomial_index |-> 0]>>]>>]

make_polys(instance, seed, degree_bits) ==
    collect([o \in 1..Len(instance.oracles) |->
        collect([k \in 1..instance.oracles[o].num_polys |->
            collect([j \in 1..Pow2(degree_bits) |-> (seed * j + 3 * o + 7 * k + j * j * o) % P])])])

\* A scenario fixes the inputs of one run.
make_setup(sc) ==
    LET params == make_params(sc.arity, sc.cap_height)
        instance == make_instance(sc.z)
        n == lde_size(params)
    IN [params |-> params,
        instance |-> instance,
        polys |-> make_polys(instance, sc.seed, params.degree_bits),
        alpha |-> <<2 + sc.seed, 5 * (sc.seed - 1)>>,
        betas |-> collect([i \in 1..Len(sc.arity) |-> <<3 + i + sc.seed, 2 * (sc.seed % 2)>>]),
        indices |-> collect([r \in 1..NumRounds |-> (sc.idx0 * (2 * r - 1) + (r - 1)) % n])]

NoTamper == [kind |-> "none", r |-> 0, s |-> 0, k |-> 0]
Tamper(kind, r, s, k) == [kind |-> kind, r |-> r, s |-> s, k |-> k]
BadDigest == <<2>>

bump_ext(u) == ExtAdd(u, EXT_ONE)

\* A corruption of the honest proof: a flipped value, a corrupted digest, or a
\* change of shape.
tamper_proof(proof, t) ==
    LET r == t.r + 1
        s == t.s + 1
        k == t.k + 1
    IN CASE t.kind = "step_eval" ->
              [proof EXCEPT !.query_round_proofs[r].steps[s].evals[k] = bump_ext(@)]
         [] t.kind = "initial_eval" ->
              [proof EXCEPT !.query_round_proofs[r].initial_trees_proof.evals_proofs[s][1][k]
                                = FAdd(@, 1)]
         [] t.kind = "final_poly" -> [proof EXCEPT !.final_poly[k] = bump_ext(@)]
         [] t.kind = "step_sibling" ->
              [proof EXCEPT !.query_round_proofs[r].steps[s].merkle_proof[1] = BadDigest]
         [] t.kind = "initial_sibling" ->
              [proof EXCEPT !.query_round_proofs[r].initial_trees_proof.evals_proofs[s][2][1]
                                = BadDigest]
         [] t.kind = "commit_cap" ->
              [proof EXCEPT !.commit_phase_merkle_caps[s] = [c \in 1..Len(@) |-> BadDigest]]
         [] t.kind = "drop_round" ->
              [proof EXCEPT !.query_round_proofs = SubSeq(@, 1, Len(@) - 1)]
         [] t.kind = "drop_step" ->
              [proof EXCEPT !.query_round_proofs[r].steps = SubSeq(@, 1, Len(@) - 1)]
         [] t.kind = "short_evals" ->
              [proof EXCEPT !.query_round_proofs[r].steps[s].evals = SubSeq(@, 1, Len(@) - 1)]
         [] t.kind = "long_final" -> [proof EXCEPT !.final_poly = Append(@, EXT_ONE)]
         [] OTHER -> proof

tamper_caps(caps, t) ==
    IF t.kind = "initial_cap"
    THEN [caps EXCEPT ![t.s + 1] = [c \in 1..Len(@) |-> BadDigest]]
    ELSE caps

\* The corruptions that apply to a proof for the given arity-bits sequence.
Tampers(arity, cap_height) ==
    LET rounds == 0..(NumRounds - 1)
        steps == 0..(Len(arity) - 1)
        log_leaves(s) == (DegreeBits + 1) - consumed_bits(arity, s + 1)
    IN {NoTamper}
       \cup {t \in {Tamper("step_eval", r, s, k) : r \in rounds, s \in steps,
                                                    k \in 0..(Pow2(DegreeBits) - 1)} :
                  t.k < Pow2(At(arity, t.s))}
       \cup {Tamper("initial_eval", r, o, 0) : r \in rounds, o \in 0..1}
       \cup {Tamper("final_poly", 0, 0, k) : k \in 0..(Pow2(DegreeBits - SumSeq(arity)) - 1)}
       \cup {t \in {Tamper("step_sibling", r, s, 0) : r \in rounds, s \in steps} :
                log_leaves(t.s) > cap_height}
       \cup {Tamper("initial_sibling", r, o, 0) : r \in rounds, o \in 0..1}
       \cup {Tamper("commit_cap", 0, s, 0) : s \in steps}
       \cup {Tamper("initial_cap", 0, o, 0) : o \in 0..1}

ShapeTampers(arity) ==
    {Tamper("drop_round", 0, 0, 0), Tamper("long_final", 0, 0, 0)}
    \cup {Tamper("drop_step", r, 0, 0) : r \in IF Len(arity) > 0 THEN 0..(NumRounds - 1) ELSE {}}
    \cup {Tamper("short_evals", r, s, 0) : r \in 0..(NumRounds - 1), s \in 0..(Len(arity) - 1)}

\* A scenario fixes the setup of one run and the family of proofs tried on it.
Scenario(family, arity, seed, idx0, cap_height, z) ==
    [family |-> family, arity |-> arity, seed |-> seed, idx0 |-> idx0,
     cap_height |-> cap_height, z |-> z]

OutPoint == <<3, 2>>
\* An opening point that lies in the evaluation domain (the generator itself).
InDomainPoint == <<5, 0>>

AllIndices == 0..(Pow2(DegreeBits + 1) - 1)

\* The cap heights a sequence admits: no more than the height of its smallest tree.
CapHeights(arity) == {ch \in 0..MaxCapHeight : ch <= DegreeBits + 1 - SumSeq(arity)}

Scenarios ==
    \* honest proofs: every sequence, query index, cap height and seed
    UNION {{Scenario("honest", a, seed, idx0, ch, OutPoint) :
                seed \in 1..MaxSeed, idx0 \in AllIndices, ch \in CapHeights(a)} :
           a \in AritySeqs}
    \* corrupted proofs: every sequence and query index
    \cup UNION {{Scenario("corrupt", a, 1, idx0, ch, OutPoint) :
                    idx0 \in AllIndices, ch \in {c \in CapHeights(a) : c + 1 \notin CapHeights(a)}} :
                a \in AritySeqs}
    \* proofs of the wrong shape, with a passing and a failing proof of work
    \cup {Scenario("shape", a, 1, idx0, 0, OutPoint) : a \in AritySeqs, idx0 \in {0, 3}}
    \* every proof-of-work response against every difficulty
    \cup {Scenario("pow", <<1>>, 1, 2, 0, OutPoint)}
    \* an opening point inside the evaluation domain
    \cup {Scenario("point", a, 1, idx0, 0, InDomainPoint) : a \in AritySeqs, idx0 \in AllIndices}

TampersOf(sc) ==
    CASE sc.family = "corrupt" -> Tampers(sc.arity, sc.cap_height)
      [] sc.family = "shape" -> ShapeTampers(sc.arity)
      [] OTHER -> {NoTamper}

\* <<proof_of_work_bits, fri_pow_response>>
PowOf(sc) ==
    CASE sc.family = "pow" -> (0..MaxPowBits) \X (0..(P - 1))
      [] sc.family = "shape" -> {<<1, 1>>, <<1, P - 1>>}
      [] OTHER -> {<<1, 1>>}

\* ------------------------------------------------------------------ state
\* tamper records how the proof handed to the verifier was derived from the
\* prover's proof; the verifier never reads it. transcript is the sequence of
\* operations the arithmetized verifier has made on its challenger.
VARIABLES
    instance, openings, challenges, initial_merkle_caps, proof, params, tamper,
    pc, err, round, step, x_index, subgroup_x, old_eval, precomputed_reduced_evals,
    transcript

inputs == <<instance, openings, challenges, initial_merkle_caps, proof, params, tamper>>
vars == <<instance, openings, challenges, initial_merkle_caps, proof, params, tamper,
          pc, err, round, step, x_index, subgroup_x, old_eval, precomputed_reduced_evals,
          transcript>>

Init ==
    /\ \E sc \in Scenarios :
          \E setup \in {make_setup(sc)} :
             \E hproof \in {honest_proof(setup)}, hcaps \in {honest_caps(setup)} :
                /\ instance = setup.instance
                /\ openings = honest_openings(setup)
                /\ \E t \in TampersOf(sc) :
                      /\ initial_merkle_caps = tamper_caps(hcaps, t)
                      /\ proof = tamper_proof(hproof, t)
                      /\ tamper = t
                /\ \E pw \in PowOf(sc) :
                      /\ params = [setup.params EXCEPT !.config.proof_of_work_bits = pw[1]]
                      /\ challenges = [fri_alpha |-> setup.alpha, fri_betas |-> setup.betas,
                                       fri_pow_response |-> pw[2],
                                       fri_query_indices |-> setup.indices]
    /\ pc = "shape"
    /\ err = "none"
    /\ transcript = <<>>
    /\ round = 0
    /\ step = 0
    /\ x_index = 0
    /\ subgroup_x = F_ZERO
    /\ old_eval = EXT_ZERO
    /\ precomputed_reduced_evals = <<>>

\* ------------------------------------------------------------------ verify_fri_proof
\* The entry checks with the proof of work verified ahead of the shape.
entry_checks_pow_first(stage, proof_, instance_, challenges_, params_) ==
    CASE stage = "shape" ->
            IF fri_verify_proof_of_work(challenges_.fri_pow_response, params_.config)
            THEN [pc |-> "pow", err |-> "none"]
            ELSE [pc |-> "rejected", err |-> ProofOfWorkFailure]
      [] stage = "pow" ->
            IF validate_fri_proof_shape(proof_, instance_, params_)
            THEN [pc |-> "coherent", err |-> "none"]
            ELSE [pc |-> "rejected", err |-> ShapeMismatch]
      [] stage = "coherent" ->
            IF params_.config.num_query_rounds = Len(proof_.query_round_proofs)
            THEN [pc |-> "round", err |-> "none"]
            ELSE [pc |-> "rejected", err |-> ShapeMismatch]

\* The outcome of the checks that precede the query rounds, in the order the
\* verifier makes them: [pc, err].
entry_checks(stage, proof_, instance_, challenges_, params_) ==
    CASE stage = "shape" ->
            IF validate_fri_proof_shape(proof_, instance_, params_)
            THEN [pc |-> "pow", err |-> "none"]
            ELSE [pc |-> "rejected", err |-> ShapeMismatch]
      [] stage = "pow" ->
            IF fri_verify_proof_of_work(challenges_.fri_pow_response, params_.config)
            THEN [pc |-> "coherent", err |-> "none"]
            ELSE [pc |-> "rejected", err |-> ProofOfWorkFailure]
      [] stage = "coherent" ->
            IF params_.config.num_query_rounds = Len(proof_.query_round_proofs)
            THEN [pc |-> "round", err |-> "none"]
            ELSE [pc |-> "rejected", err |-> ShapeMismatch]

\* zip(fri_query_indices, query_round_proofs): the number of rounds verified.
num_zipped_rounds(challenges_, proof_) ==
    IF Len(challenges_.fri_query_indices) <= Len(proof_.query_round_proofs)
    THEN Len(challenges_.fri_query_indices) ELSE Len(proof_.query_round_proofs)

run_unchanged == UNCHANGED <<round, step, x_index, subgroup_x, old_eval>>

\* validate_fri_proof_shape(proof, instance, params)?
ValidateShape ==
    /\ pc = "shape"
    /\ LET res == entry_checks("shape", proof, instance, challenges, params)
       IN pc' = res.pc /\ err' = res.err
    /\ run_unchanged
    /\ UNCHANGED <<inputs, transcript, precomputed_reduced_evals>>

\* fri_verify_proof_of_work(challenges.fri_pow_response, &params.config)?
VerifyProofOfWork ==
    /\ pc = "pow"
    /\ LET res == entry_checks("pow", proof, instance, challenges, params)
       IN pc' = res.pc /\ err' = res.err
    /\ run_unchanged
    /\ UNCHANGED <<inputs, transcript, precomputed_reduced_evals>>

\* The coherence ensure! and PrecomputedReducedOpenings::from_os_and_alpha.
PrecomputeReducedOpenings ==
    /\ pc = "coherent"
    /\ LET res == entry_checks("coherent", proof, instance, challenges, params)
       IN /\ err' = res.err
          /\ pc' = IF res.pc = "round" /\ num_zipped_rounds(challenges, proof) = 0
                   THEN "accepted" ELSE res.pc
          /\ precomputed_reduced_evals' =
                IF res.pc = "round"
                THEN from_os_and_alpha(openings, challenges.fri_alpha, params.hiding)
                ELSE precomputed_reduced_evals
    /\ run_unchanged
    /\ UNCHANGED <<inputs, transcript>>

\* fri_verifier_query_round for the next (x_index, round_proof) pair, up to the loop.
QueryRoundInit ==
    /\ pc = "round"
    /\ LET w == query_round_init(instance, challenges, precomputed_reduced_evals,
                                 initial_merkle_caps, At(challenges.fri_query_indices, round),
                                 lde_size(params), At(proof.query_round_proofs, round), params)
       IN /\ pc' = w.pc
          /\ err' = w.err
          /\ x_index' = w.x_index
          /\ subgroup_x' = w.subgroup_x
          /\ old_eval' = w.old_eval
    /\ step' = 0
    /\ UNCHANGED <<inputs, transcript, round, precomputed_reduced_evals>>

\* The iteration with compute_evaluation reordering the proof's own evals
\* instead of a copy of them.
FoldStep_in_place ==
    /\ pc = "walk"
    /\ step < Len(params.reduction_arity_bits)
    /\ LET w == fold_step(proof, challenges, At(proof.query_round_proofs, round), params,
                          step, x_index, subgroup_x, old_eval)
       IN /\ pc' = w.pc
          /\ err' = w.err
          /\ x_index' = w.x_index
          /\ subgroup_x' = w.subgroup_x
          /\ old_eval' = w.old_eval
    /\ step' = step + 1
    /\ proof' = [proof EXCEPT !.query_round_proofs[round + 1].steps[step + 1].evals =
                                  reverse_index_bits_in_place(@)]
    /\ UNCHANGED <<instance, openings, challenges, initial_merkle_caps, params, tamper,
                   transcript, round, precomputed_reduced_evals>>

\* One iteration of the loop over params.reduction_arity_bits.
FoldStep ==
    /\ pc = "walk"
    /\ step < Len(params.reduction_arity_bits)
    /\ LET w == fold_step(proof, challenges, At(proof.query_round_proofs, round), params,
                          step, x_index, subgroup_x, old_eval)
       IN /\ pc' = w.pc
          /\ err' = w.err
          /\ x_index' = w.x_index
          /\ subgroup_x' = w.subgroup_x
          /\ old_eval' = w.old_eval
    /\ step' = step + 1
    /\ UNCHANGED <<inputs, transcript, round, precomputed_reduced_evals>>

\* The final check of the round; the next round, or Ok(()) after the last.
FinalCheck ==
    /\ pc = "walk"
    /\ step = Len(params.reduction_arity_bits)
    /\ IF final_check(proof, subgroup_x, old_eval)
       THEN /\ pc' = IF round + 1 < num_zipped_rounds(challenges, proof)
                     THEN "round" ELSE "accepted"
            /\ err' = "none"
            /\ round' = round + 1
       ELSE /\ pc' = "rejected"
            /\ err' = FinalPolynomialMismatch
            /\ round' = round
    /\ UNCHANGED <<inputs, transcript, step, x_index, subgroup_x, old_eval, precomputed_reduced_evals>>

Next ==
    \/ ValidateShape
    \/ VerifyProofOfWork
    \/ PrecomputeReducedOpenings
    \/ QueryRoundInit
    \/ FoldStep
    \/ FinalCheck

Spec == Init /\ [][Next]_vars

\* ------------------------------------------------------------------ compute_evaluation alone
\* compute_evaluation applied to free inputs: any point x, any index within the
\* coset, any evaluations and any beta, whether or not they come from a proof.
EvalPoints == 1..6
EvalBetas == {<<5, 0>>, <<3, 2>>, <<0, 1>>}

eval_values(arity_bits, seed) ==
    collect([i \in 1..Pow2(arity_bits) |-> <<(seed * i * i + 3 * i) % P, (seed + i) % P>>])

EvalInit ==
    /\ \E ab \in 1..DegreeBits, k \in 0..(Pow2(DegreeBits) - 1), x \in EvalPoints,
          seed \in 1..MaxSeed, beta \in EvalBetas :
          /\ k < Pow2(ab)
          /\ params = make_params(<<ab>>, 0)
          /\ proof = [commit_phase_merkle_caps |-> <<>>,
                      query_round_proofs |->
                          <<[initial_trees_proof |-> [evals_proofs |-> <<>>],
                             steps |-> <<[evals |-> eval_values(ab, seed),
                                          merkle_proof |-> <<>>]>>]>>,
                      final_poly |-> <<>>]
          /\ challenges = [fri_alpha |-> EXT_ONE, fri_betas |-> <<beta>>,
                           fri_pow_response |-> 0, fri_query_indices |-> <<k>>]
          /\ x_index = k
          /\ subgroup_x = x
    /\ instance = make_instance(OutPoint)
    /\ openings = [batches |-> <<>>]
    /\ initial_merkle_caps = <<>>
    /\ tamper = NoTamper
    /\ pc = "eval"
    /\ err = "none"
    /\ transcript = <<>>
    /\ round = 0
    /\ step = 0
    /\ old_eval = EXT_ZERO
    /\ precomputed_reduced_evals = <<>>

\* old_eval = compute_evaluation(subgroup_x, x_index_within_coset, arity_bits, evals, beta)
ComputeEvaluation ==
    /\ pc = "eval"
    /\ old_eval' = compute_evaluation(subgroup_x, x_index,
                                      At(params.reduction_arity_bits, step),
                                      At(At(proof.query_round_proofs, round).steps, step).evals,
                                      At(challenges.fri_betas, step))
    /\ pc' = "evaluated"
    /\ UNCHANGED <<inputs, transcript, err, round, step, x_index, subgroup_x, precomputed_reduced_evals>>

EvalSpec == EvalInit /\ [][ComputeEvaluation]_vars

\* ------------------------------------------------------------------ fri_combine_initial alone
\* from_os_and_alpha and fri_combine_initial applied to free inputs: a layout of
\* oracles and batches, opening points, a challenge alpha, a point x, the leaves
\* of one query and the claimed openings.
Poly(o, k) == [oracle_index |-> o, polynomial_index |-> k]
Oracle(n, b) == [num_polys |-> n, blinding |-> b]

\* Layouts of a circuit without zero knowledge: oracles 0 and 1 only.
PlainLayouts ==
    {[hiding |-> FALSE, oracles |-> <<Oracle(2, FALSE), Oracle(2, FALSE)>>,
      batches |-> <<<<Poly(0, 0), Poly(0, 1)>>, <<Poly(1, 0), Poly(1, 1)>>>>],
     [hiding |-> FALSE, oracles |-> <<Oracle(2, FALSE), Oracle(2, FALSE)>>,
      batches |-> <<<<Poly(0, 0)>>, <<Poly(0, 1), Poly(1, 0), Poly(1, 1)>>>>],
     [hiding |-> FALSE, oracles |-> <<Oracle(2, FALSE), Oracle(2, FALSE)>>,
      batches |-> <<<<Poly(0, 0), Poly(0, 1), Poly(1, 0)>>>>]}

\* Layouts of a zero-knowledge circuit: oracle PlonkOracle::R holds the two
\* blinding polynomials, which close the first batch.
HidingLayouts ==
    {[hiding |-> TRUE,
      oracles |-> <<Oracle(2, FALSE), Oracle(2, TRUE), Oracle(0, TRUE), Oracle(0, TRUE), Oracle(2, TRUE)>>,
      batches |-> <<<<Poly(0, 0), Poly(0, 1), Poly(1, 0), Poly(4, 0), Poly(4, 1)>>,
                    <<Poly(1, 0), Poly(1, 1)>>>>],
     [hiding |-> TRUE,
      oracles |-> <<Oracle(2, FALSE), Oracle(2, TRUE), Oracle(0, TRUE), Oracle(0, TRUE), Oracle(2, TRUE)>>,
      batches |-> <<<<Poly(0, 0), Poly(4, 0), Poly(4, 1)>>,
                    <<Poly(1, 1), Poly(4, 0), Poly(4, 1)>>>>]}

\* Layouts without hiding in which an oracle with the index of PlonkOracle::R
\* exists and has polynomials opened in the first batch.
FifthOracleLayouts ==
    {[hiding |-> FALSE,
      oracles |-> <<Oracle(2, FALSE), Oracle(2, FALSE), Oracle(0, FALSE), Oracle(0, FALSE), Oracle(2, FALSE)>>,
      batches |-> <<<<Poly(0, 0), Poly(1, 0), Poly(4, 0), Poly(4, 1)>>, <<Poly(1, 1)>>>>],
     [hiding |-> FALSE,
      oracles |-> <<Oracle(2, FALSE), Oracle(2, FALSE), Oracle(0, FALSE), Oracle(0, FALSE), Oracle(2, FALSE)>>,
      batches |-> <<<<Poly(0, 0), Poly(4, 0)>>, <<Poly(0, 1), Poly(4, 1)>>>>]}

\* The leaf of oracle o (1-based) at the queried index, salted where the oracle blinds.
combine_leaf(layout, o, seed) ==
    collect([k \in 1..(layout.oracles[o].num_polys
                       + salt_size(layout.hiding /\ layout.oracles[o].blinding)) |->
                (seed * k * k + 11 * o + 5 * k) % P])

combine_opening(b, k, seed) == <<(7 * b + 3 * k + seed) % P, (seed * k + b) % P>>

CombineInit ==
    /\ \E layout \in PlainLayouts \cup HidingLayouts \cup FifthOracleLayouts,
          z0 \in {<<5, 0>>, <<11, 0>>, <<3, 2>>}, z1 \in {<<5, 0>>, <<11, 0>>, <<3, 2>>},
          alpha \in {<<3, 0>>, <<2, 1>>}, x \in {5, 7, 11, 43}, seed \in 1..MaxSeed :
          /\ params = [make_params(<<1>>, 0) EXCEPT !.hiding = layout.hiding]
          /\ instance = [oracles |-> layout.oracles,
                         batches |-> collect([b \in 1..Len(layout.batches) |->
                                        [point |-> IF b = 1 THEN z0 ELSE z1,
                                         polynomials |-> layout.batches[b]]])]
          /\ openings = [batches |-> collect([b \in 1..Len(layout.batches) |->
                            [values |-> collect([k \in 1..Len(layout.batches[b]) |->
                                                    combine_opening(b, k, seed)])]])]
          /\ proof = [commit_phase_merkle_caps |-> <<>>,
                      query_round_proofs |->
                          <<[initial_trees_proof |->
                                [evals_proofs |-> collect([o \in 1..Len(layout.oracles) |->
                                                     <<combine_leaf(layout, o, seed), <<>>>>])],
                             steps |-> <<>>]>>,
                      final_poly |-> <<>>]
          /\ challenges = [fri_alpha |-> alpha, fri_betas |-> <<>>,
                           fri_pow_response |-> 0, fri_query_indices |-> <<0>>]
          /\ subgroup_x = x
    /\ initial_merkle_caps = <<>>
    /\ tamper = NoTamper
    /\ pc = "reduce"
    /\ err = "none"
    /\ transcript = <<>>
    /\ round = 0
    /\ step = 0
    /\ x_index = 0
    /\ old_eval = EXT_ZERO
    /\ precomputed_reduced_evals = <<>>

\* verify_fri_proof, lines 89-93, on the free inputs.
ReduceOpenings ==
    /\ pc = "reduce"
    /\ precomputed_reduced_evals' = from_os_and_alpha(openings, challenges.fri_alpha, params.hiding)
    /\ pc' = "combine"
    /\ UNCHANGED <<inputs, transcript, err, round, step, x_index, subgroup_x, old_eval>>

\* old_eval = fri_combine_initial(...), or the panic of its division.
CombineInitial ==
    /\ pc = "combine"
    /\ \E comb \in {fri_combine_initial(instance, At(proof.query_round_proofs, round).initial_trees_proof,
                                        challenges.fri_alpha, subgroup_x,
                                        precomputed_reduced_evals, params)} :
          /\ pc' = IF comb.panic THEN "panicked" ELSE "combined"
          /\ old_eval' = comb.value
    /\ UNCHANGED <<inputs, transcript, err, round, step, x_index, subgroup_x, precomputed_reduced_evals>>

CombineNext ==
    \/ ReduceOpenings
    \/ CombineInitial

CombineSpec == CombineInit /\ [][CombineNext]_vars

\* ------------------------------------------------------------------ properties
\* The round proof, the arity bits and the evaluations of the step a walk stands at.
round_proof_now == At(proof.query_round_proofs, round)
arity_bits_now == At(params.reduction_arity_bits, step)
evals_now == At(round_proof_now.steps, step).evals
at_fold_step == pc = "walk" /\ step < Len(params.reduction_arity_bits)

\* The value at x of the polynomial of degree below Len(points) through the
\* points <<x_i, y_i>>: Lagrange's formula.
lagrange_eval(points, x) ==
    ExtSum(collect([i \in 1..Len(points) |->
        ExtMul(points[i][2],
               ExtProduct(collect([j \in 1..Len(points) |->
                   IF j = i THEN EXT_ONE
                   ELSE ExtDiv(ExtSub(x, points[j][1]),
                               ExtSub(points[i][1], points[j][1]))])))]))

\* The points (x * g^(i - back), evals[bitrev(i)]), i = 0 .. 2^arity_bits - 1.
points_from(x, back, arity_bits, evals) ==
    LET arity == Pow2(arity_bits)
        g == primitive_root_of_unity(arity_bits)
    IN collect([i \in 1..arity |->
          <<from_basefield(FMul(x, exp_u64(g, (i - 1 + arity - back) % arity))),
            At(evals, reverse_bits(i - 1, arity_bits))>>])

\* C1: at every folding step of every query round, a mismatch between
\* evals[x_index & (2^arity_bits - 1)] and the running evaluation old_eval rejects
\* the round with a folding error, and a rejection is final (no retry, no skip);
\* old_eval is the reduce-initial output when the walk starts and the value
\* interpolated by the previous step afterwards.
C1_FoldingConsistency ==
    [][/\ (at_fold_step /\ At(evals_now, x_index % Pow2(arity_bits_now)) # old_eval)
            => (pc' = "rejected" /\ err' = FoldingConsistencyFailure)
       /\ (at_fold_step /\ pc' = "walk")
            => old_eval' = compute_evaluation(subgroup_x, x_index % Pow2(arity_bits_now),
                                              arity_bits_now, evals_now,
                                              At(challenges.fri_betas, step))
       /\ (pc = "round" /\ pc' = "walk")
            => old_eval' = fri_combine_initial(instance, round_proof_now.initial_trees_proof,
                                               challenges.fri_alpha, subgroup_x',
                                               precomputed_reduced_evals, params).value
       /\ (pc = "rejected" => pc' = "rejected")]_vars

\* A second round rejected at its second folding step for a mismatching evaluation.
C1_Witness ==
    pc = "rejected" /\ err = FoldingConsistencyFailure /\ round = 1 /\ step = 2

\* C2: during a walk (at entry to every folding step and at the final check), after
\* s arity bits have been consumed, subgroup_x = generator^(2^s) *
\* root_of_unity(log_n - s)^reverse_bits(x_index, log_n - s); a step replaces
\* subgroup_x by subgroup_x^(2^arity_bits) and x_index by coset_index.
C2_SubgroupX ==
    /\ [](pc = "walk" =>
            LET s == consumed_bits(params.reduction_arity_bits, step)
                log_n == lde_bits(params)
            IN subgroup_x = FMul(exp_u64(MULTIPLICATIVE_GROUP_GENERATOR, Pow2(s)),
                                 exp_u64(primitive_root_of_unity(log_n - s),
                                         reverse_bits(x_index, log_n - s))))
    /\ [][(at_fold_step /\ pc' = "walk")
            => /\ subgroup_x' = exp_u64(subgroup_x, Pow2(arity_bits_now))
               /\ x_index' = x_index \div Pow2(arity_bits_now)]_vars

\* A walk that has consumed two arity bits and stands at index 1 of the last domain.
C2_Witness ==
    pc = "walk" /\ step = 2 /\ x_index = 1 /\ round = 1

\* C3 (amended): compute_evaluation(x, x_index_within_coset, arity_bits, evals, beta)
\* is the value at beta of the polynomial of degree below 2^arity_bits through the
\* points (x * g^(i - bitrev(x_index_within_coset)), evals[bitrev(i)]): the coset
\* starts at x * g^(-bitrev(x_index_within_coset)), not at x.
C3_ComputeEvaluation ==
    pc = "evaluated" =>
        old_eval = lagrange_eval(points_from(subgroup_x,
                                             reverse_bits(x_index, arity_bits_now),
                                             arity_bits_now, evals_now),
                                 At(challenges.fri_betas, step))

\* C3 as stated: the points are (x * g^i, evals[bitrev(i)]) for every
\* x_index_within_coset.
C3_Original ==
    pc = "evaluated" =>
        old_eval = lagrange_eval(points_from(subgroup_x, 0, arity_bits_now, evals_now),
                                 At(challenges.fri_betas, step))

\* An evaluation at a non-zero index within a coset of four, where the two sets of
\* points give different values.
C3_Witness ==
    /\ pc = "evaluated"
    /\ arity_bits_now = 2
    /\ x_index = 3
    /\ old_eval # lagrange_eval(points_from(subgroup_x, 0, arity_bits_now, evals_now),
                                At(challenges.fri_betas, step))

\* C4: during a walk the index entering the step after s consumed arity bits is the
\* round's query index with its low s bits dropped, s summed over
\* params.reduction_arity_bits alone, so it is below n / 2^s; each step splits it
\* as coset_index * 2^arity_bits + index_within_coset.
C4_IndexSplit ==
    pc = "walk" =>
        LET s == consumed_bits(params.reduction_arity_bits, step)
            start == At(challenges.fri_query_indices, round)
        IN /\ start < lde_size(params)
           /\ x_index = start \div Pow2(s)
           /\ x_index < lde_size(params) \div Pow2(s)
           /\ start = x_index * Pow2(s) + (start % Pow2(s))

\* The query index 7 after two consumed bits: index 1.
C4_Witness ==
    pc = "walk" /\ step = 2 /\ x_index = 1 /\ At(challenges.fri_query_indices, round) = 7

\* C5: a round passes its final check only if the final polynomial, evaluated at
\* the terminal subgroup_x embedded in the extension field, equals the terminal
\* old_eval, and is rejected for a final-polynomial mismatch only if it does not;
\* with no folding step the two are the initial subgroup_x and the reduce-initial
\* output.
C5_FinalCheck ==
    LET at_x == poly_eval(proof.final_poly, from_basefield(subgroup_x))
        passed == pc \in {"round", "accepted"} /\ round > 0
        failed == pc = "rejected" /\ err = FinalPolynomialMismatch
        r == IF passed THEN round - 1 ELSE round
    IN /\ passed => (step = Len(params.reduction_arity_bits) /\ at_x = old_eval)
       /\ failed => (step = Len(params.reduction_arity_bits) /\ at_x # old_eval)
       /\ ((passed \/ failed \/ pc = "walk") /\ Len(params.reduction_arity_bits) = 0)
            => /\ subgroup_x = initial_subgroup_x(At(challenges.fri_query_indices, r),
                                                   lde_size(params))
               /\ old_eval = fri_combine_initial(
                                 instance,
                                 At(proof.query_round_proofs, r).initial_trees_proof,
                                 challenges.fri_alpha, subgroup_x,
                                 precomputed_reduced_evals, params).value

\* A proof without folding steps rejected at the final check.
C5_Witness ==
    /\ pc = "rejected"
    /\ err = FinalPolynomialMismatch
    /\ Len(params.reduction_arity_bits) = 0

\* C6: a folding step is passed only if the flattened evals of the step authenticate
\* at leaf index coset_index (the index without its low arity_bits bits) against
\* commit_phase_merkle_caps[step], and a step rejected for a Merkle failure is one
\* where they do not.
C6_StepMerkle ==
    step > 0 /\ step <= Len(params.reduction_arity_bits) =>
        LET i == step - 1
            r == IF pc \in {"round", "accepted"} THEN round - 1 ELSE round
            st == At(At(proof.query_round_proofs, r).steps, i)
            authenticated(leaf_index) ==
                verify_merkle_proof_to_cap(flatten(st.evals), leaf_index,
                                           At(proof.commit_phase_merkle_caps, i),
                                           st.merkle_proof)
        IN /\ pc \in {"walk", "round", "accepted"} => authenticated(x_index)
           /\ (pc = "rejected" /\ err = MerkleAuthenticationFailure)
                => ~authenticated(x_index \div Pow2(At(params.reduction_arity_bits, i)))

\* A step rejected for a Merkle failure at an index whose coset index differs.
C6_Witness ==
    /\ pc = "rejected"
    /\ err = MerkleAuthenticationFailure
    /\ step = 2
    /\ x_index # x_index \div Pow2(At(params.reduction_arity_bits, 1))

C9_ProofOfWork ==
    LET count == params.config.proof_of_work_bits + (64 - bits_u64(P))
        enough == count <= 64 /\ challenges.fri_pow_response < 2 ^ (64 - count)
        checked == pc \notin {"shape", "pow"} /\ err # ShapeMismatch
    IN /\ circuit_pow_leading_zeros(params.config) = count
       /\ checked => (enough <=> ~(pc = "rejected" /\ err = ProofOfWorkFailure))

\* A response rejected although it has proof_of_work_bits leading zeros and more:
\* it lacks the (64 - order bits) further ones.
C9_Witness ==
    /\ pc = "rejected"
    /\ err = ProofOfWorkFailure
    /\ params.config.proof_of_work_bits = 3
    /\ challenges.fri_pow_response = 16

\* C10: with the leading zeros counted past the 64 - order bits that every
\* canonical value has (all of them, for a field whose order has 64 bits), a
\* response with exactly proof_of_work_bits - 1 of them is rejected and a response
\* with exactly proof_of_work_bits of them is accepted.
C10_PowBoundary ==
    LET bits == params.config.proof_of_work_bits
        zeros == leading_zeros(challenges.fri_pow_response) - (64 - order_bits)
        checked == pc \notin {"shape", "pow"} /\ err # ShapeMismatch
    IN checked =>
          /\ zeros = bits - 1 => (pc = "rejected" /\ err = ProofOfWorkFailure)
          /\ zeros = bits => ~(pc = "rejected" /\ err = ProofOfWorkFailure)

\* A response with exactly proof_of_work_bits leading zeros past the offset, accepted.
C10_Witness ==
    /\ pc = "coherent"
    /\ params.config.proof_of_work_bits = 3
    /\ leading_zeros(challenges.fri_pow_response) - (64 - order_bits) = 3

\* ------------------------------------------------------------------ reduce-initial properties
\* sum_i alpha^i v_i written with explicit powers, the value read from the leaf
\* of a polynomial's oracle, and the quotient of the first n polynomials of batch
\* b (1-based): (sum_i alpha^i v_i - sum_i alpha^i o_i) / (x - z_b).
power_sum(alpha, vals) ==
    ExtSum(collect([i \in 1..Len(vals) |-> ExtMul(ExtExp(alpha, i - 1), vals[i])]))

leaf_value(p) ==
    from_basefield(At(proof.query_round_proofs, 0).initial_trees_proof.evals_proofs[p.oracle_index + 1][1][p.polynomial_index + 1])

batch_quotient(b, n) ==
    LET alpha == challenges.fri_alpha
        polys == instance.batches[b].polynomials
    IN ExtDiv(ExtSub(power_sum(alpha, collect([i \in 1..n |-> leaf_value(polys[i])])),
                     power_sum(alpha, SubSeq(openings.batches[b].values, 1, n))),
              ExtSub(from_basefield(subgroup_x), instance.batches[b].point))

batch_len(b) == Len(instance.batches[b].polynomials)

C12_HidingCombine ==
    (pc = "combined" /\ params.hiding) =>
        LET alpha == challenges.fri_alpha
            polys == instance.batches[1].polynomials
            n == Len(polys) - 2
            x == from_basefield(subgroup_x)
            first == ExtAdd(batch_quotient(1, n),
                            ExtAdd(leaf_value(polys[n + 1]),
                                   ExtMul(leaf_value(polys[n + 2]),
                                          ExtExp(x, Pow2(params.degree_bits)))))
            RECURSIVE acc(_)
            acc(b) == IF b = 1 THEN first
                      ELSE ExtAdd(ExtMul(ExtExp(alpha, batch_len(b)), acc(b - 1)),
                                  batch_quotient(b, batch_len(b)))
        IN /\ precomputed_reduced_evals[1] = power_sum(alpha, SubSeq(openings.batches[1].values, 1, n))
           /\ \A b \in 2..Len(instance.batches) :
                 precomputed_reduced_evals[b] = power_sum(alpha, openings.batches[b].values)
           /\ old_eval = acc(Len(instance.batches))

\* alpha = 3, points (3, 2) and 11, x = 7, degree_bits = 2: the first batch gives
\* (28, 75) + 61 + 69 * 7^4 = (82, 75), and 9 * (82, 75) + q_1 = (21, 24).
C12_Witness ==
    /\ pc = "combined" /\ params.hiding /\ params.degree_bits = 2
    /\ challenges.fri_alpha = <<3, 0>> /\ subgroup_x = 7
    /\ batch_len(1) = 5 /\ batch_len(2) = 2
    /\ instance.batches[1].point = <<3, 2>> /\ instance.batches[2].point = <<11, 0>>
    /\ openings.batches[1].values[1] = <<11, 2>>
    /\ old_eval = <<21, 24>>

\* ------------------------------------------------------------------ mutation properties
\* The position within its coset that round r (0-based) queries at step s.
queried_position(r, s) ==
    (At(challenges.fri_query_indices, r) \div Pow2(consumed_bits(params.reduction_arity_bits, s)))
        % Pow2(At(params.reduction_arity_bits, s))

finished == pc \in {"accepted", "rejected", "panicked"}

\* C13: starting from an accepted proof, a flipped steps[s].evals[k] of round r
\* is rejected in round r, with FoldingConsistencyFailure when k is the position
\* the round queries at that step and with MerkleAuthenticationFailure at every
\* other position; a flipped initial-tree evaluation of round r is rejected in
\* round r with MerkleAuthenticationFailure; a flipped final-polynomial
\* coefficient is rejected with FinalPolynomialMismatch.
C13_MutationKinds ==
    finished =>
        /\ tamper.kind = "step_eval" =>
              /\ pc = "rejected" /\ round = tamper.r /\ step = tamper.s + 1
              /\ err = IF tamper.k = queried_position(tamper.r, tamper.s)
                       THEN FoldingConsistencyFailure
                       ELSE MerkleAuthenticationFailure
        /\ tamper.kind = "initial_eval" =>
              pc = "rejected" /\ round = tamper.r /\ err = MerkleAuthenticationFailure
        /\ tamper.kind = "final_poly" =>
              pc = "rejected" /\ round = 0 /\ err = FinalPolynomialMismatch

\* C13 as stated: every flipped step evaluation ends in FoldingConsistencyFailure.
C13_Original ==
    (finished /\ tamper.kind = "step_eval") =>
        pc = "rejected" /\ err = FoldingConsistencyFailure

\* A flip away from the queried position, in the second round of a two-step
\* sequence, rejected by the Merkle check.
C13_Witness ==
    /\ pc = "rejected" /\ err = MerkleAuthenticationFailure
    /\ tamper.kind = "step_eval" /\ tamper.r = 1 /\ tamper.s = 1
    /\ tamper.k # queried_position(1, 1)
    /\ params.reduction_arity_bits = <<1, 1>>

\* C14: every run of verify_fri_proof ends in a returned verdict, never in an
\* abort: the state "panicked" (the division of fri_combine_initial by
\* x - batch.point = 0) is never reached.
C14_NeverAborts == pc # "panicked"

\* ------------------------------------------------------------------ fri::recursive_verifier
\* The arithmetized query round. A target is modelled by the value its wire takes
\* on the inputs, a constraint by whether that assignment satisfies it: every
\* wire is a function of the inputs, so the system is satisfiable exactly when
\* every constraint holds.

\* CircuitBuilder::low_bits: the num_low_bits low bits of x, little-endian.
low_bits(x, num_low_bits) == collect([i \in 1..num_low_bits |-> Bit(x, i - 1)])

\* CircuitBuilder::le_sum
RECURSIVE le_sum(_)
le_sum(bits) == IF bits = <<>> THEN 0 ELSE Head(bits) + 2 * le_sum(Tail(bits))

\* The bits in the order given.
rev_none(bits) == bits

\* Iterator::rev
rev(bits) == collect([i \in 1..Len(bits) |-> bits[Len(bits) + 1 - i]])

\* CircuitBuilder::exp_from_bits_const_base: base^(le_sum(exponent_bits)).
RECURSIVE exp_from_bits_const_base(_, _)
exp_from_bits_const_base(base, exponent_bits) ==
    IF exponent_bits = <<>> THEN F_ONE
    ELSE FMul(IF Head(exponent_bits) = 1 THEN base ELSE F_ONE,
              exp_from_bits_const_base(square(base), Tail(exponent_bits)))

\* The arithmetized compute_evaluation with the bits of the index used unreversed.
circuit_compute_evaluation_unreversed(x, x_index_within_coset_bits, arity_bits, evals, beta) ==
    LET g == primitive_root_of_unity(arity_bits)
        g_inv == exp_u64(g, Pow2(arity_bits) - 1)
        start == exp_from_bits_const_base(g_inv, x_index_within_coset_bits)
    IN lagrange_eval(coset_points(FMul(start, x), g, reverse_index_bits_in_place(evals)), beta)

\* CircuitBuilder::compute_evaluation; interpolate is the InterpolationGate's
\* relation: the value at beta of the interpolant through the points.
circuit_compute_evaluation(x, x_index_within_coset_bits, arity_bits, evals, beta) ==
    LET arity == Pow2(arity_bits)
        g == primitive_root_of_unity(arity_bits)
        g_inv == exp_u64(g, arity - 1)
        evals_r == reverse_index_bits_in_place(evals)
        start == exp_from_bits_const_base(g_inv, rev(x_index_within_coset_bits))
        coset_start == FMul(start, x)
        points == coset_points(coset_start, g, evals_r)
    IN lagrange_eval(points, beta)

\* CircuitBuilder::fri_verifier_query_round from the folding loop on: one
\* random_access_extension constraint per step, then the final connect_extension.
RECURSIVE circuit_fold_constraints(_, _, _, _, _, _, _, _)
circuit_fold_constraints(i, x_index_bits, subgroup_x_, old_eval_, round_proof, betas, reduction_arity_bits, final_poly) ==
    IF i >= Len(reduction_arity_bits)
    THEN <<poly_eval(final_poly, from_basefield(subgroup_x_)) = old_eval_>>
    ELSE LET arity_bits == At(reduction_arity_bits, i)
             evals == At(round_proof.steps, i).evals
             coset_index_bits == SubSeq(x_index_bits, arity_bits + 1, Len(x_index_bits))
             x_index_within_coset_bits == SubSeq(x_index_bits, 1, arity_bits)
             x_index_within_coset == le_sum(x_index_within_coset_bits)
         IN <<At(evals, x_index_within_coset) = old_eval_>>
            \o circuit_fold_constraints(i + 1, coset_index_bits,
                                        exp_power_of_2(subgroup_x_, arity_bits),
                                        circuit_compute_evaluation(subgroup_x_, x_index_within_coset_bits,
                                                                   arity_bits, evals, At(betas, i)),
                                        round_proof, betas, reduction_arity_bits, final_poly)

\* CircuitBuilder::fri_verifier_query_round: the bits of x_index, subgroup_x
\* from them, and the constraints of the walk started at the given old_eval.
circuit_query_round(x_index_, n, old_eval_, round_proof, betas, reduction_arity_bits, final_poly) ==
    LET n_log == log2_strict(n)
        x_index_bits == low_bits(x_index_, n_log)
        phi == exp_from_bits_const_base(primitive_root_of_unity(n_log), rev(x_index_bits))
        subgroup_x_ == FMul(MULTIPLICATIVE_GROUP_GENERATOR, phi)
    IN circuit_fold_constraints(0, x_index_bits, subgroup_x_, old_eval_, round_proof, betas,
                                reduction_arity_bits, final_poly)

\* The constraints the arithmetized round r (0-based) emits on the inputs of the
\* native run, the walk started at the native reduce-initial value.
circuit_round(r) ==
    LET round_proof == At(proof.query_round_proofs, r)
        x0 == At(challenges.fri_query_indices, r)
        n == lde_size(params)
        comb == fri_combine_initial(instance, round_proof.initial_trees_proof, challenges.fri_alpha,
                                    initial_subgroup_x(x0, n), precomputed_reduced_evals, params)
    IN circuit_query_round(x0, n, comb.value, round_proof, challenges.fri_betas,
                           params.reduction_arity_bits, proof.final_poly)

satisfiable(constraints) == \A c \in 1..Len(constraints) : constraints[c]

\* C15: on the same query index, step evaluations, betas and final polynomial,
\* a round whose native folding-consistency and final checks all pass emits a
\* satisfiable system, and a round the native verifier rejects at a consistency
\* check or at the final check emits an unsatisfiable one: the constraint of
\* the failing check is violated and those of the checks before it hold.
C15_NativeCircuitParity ==
    /\ (pc \in {"round", "accepted"} /\ round >= 1) => satisfiable(circuit_round(round - 1))
    /\ (pc = "rejected" /\ err = FoldingConsistencyFailure) =>
          \E cs \in {circuit_round(round)} :
             /\ ~cs[step]
             /\ \A c \in 1..(step - 1) : cs[c]
    /\ (pc = "rejected" /\ err = FinalPolynomialMismatch) =>
          \E cs \in {circuit_round(round)} :
             /\ ~cs[Len(cs)]
             /\ \A c \in 1..(Len(cs) - 1) : cs[c]

\* A round rejected natively at its second consistency check, whose arithmetized
\* constraints are not all satisfied.
C15_Witness ==
    /\ pc = "rejected" /\ err = FoldingConsistencyFailure /\ step = 2
    /\ params.reduction_arity_bits = <<1, 1>>
    /\ ~satisfiable(circuit_round(round))

\* ------------------------------------------------------------------ arithmetized verify_fri_proof
\* CircuitBuilder::verify_fri_proof up to the query rounds: the operation made on
\* the challenger at each position, and the position after it.
\* The betas derived before their caps are observed.
circuit_transcript_step_beta_first(pc_, i, proof_) ==
    LET num_caps == Len(proof_.commit_phase_merkle_caps)
    IN CASE pc_ = "observe_opening_set" ->
              [op |-> <<"observe_opening_set">>, pc |-> "alpha", i |-> 0]
         [] pc_ = "alpha" ->
              [op |-> <<"get_extension_challenge">>,
               pc |-> IF num_caps = 0 THEN "observe_final_poly" ELSE "beta", i |-> 0]
         [] pc_ = "beta" ->
              [op |-> <<"get_extension_challenge">>, pc |-> "observe_cap", i |-> i]
         [] pc_ = "observe_cap" ->
              [op |-> <<"observe_cap", i>>,
               pc |-> IF i + 1 < num_caps THEN "beta" ELSE "observe_final_poly", i |-> i + 1]
         [] pc_ = "observe_final_poly" ->
              [op |-> <<"observe_extension_elements">>, pc |-> "pow", i |-> 0]
         [] OTHER -> [op |-> <<"get_hash">>, pc |-> "get_index", i |-> 0]

circuit_transcript_step(pc_, i, proof_) ==
    LET num_caps == Len(proof_.commit_phase_merkle_caps)
    IN CASE pc_ = "observe_opening_set" ->
              [op |-> <<"observe_opening_set">>, pc |-> "alpha", i |-> 0]
         [] pc_ = "alpha" ->
              [op |-> <<"get_extension_challenge">>,
               pc |-> IF num_caps = 0 THEN "observe_final_poly" ELSE "observe_cap", i |-> 0]
         [] pc_ = "observe_cap" ->
              [op |-> <<"observe_cap", i>>, pc |-> "beta", i |-> i]
         [] pc_ = "beta" ->
              [op |-> <<"get_extension_challenge">>,
               pc |-> IF i + 1 < num_caps THEN "observe_cap" ELSE "observe_final_poly", i |-> i + 1]
         [] pc_ = "observe_final_poly" ->
              [op |-> <<"observe_extension_elements">>, pc |-> "pow", i |-> 0]
         \* fri_verify_proof_of_work: challenger.get_hash
         [] OTHER -> [op |-> <<"get_hash">>, pc |-> "get_index", i |-> 0]

\* The arithmetized verifier is built over the inputs of an honest run.
CircuitInit ==
    /\ \E sc \in {s \in Scenarios : s.family = "honest"} :
          \E setup \in {make_setup(sc)} :
             /\ instance = setup.instance
             /\ openings = honest_openings(setup)
             /\ initial_merkle_caps = honest_caps(setup)
             /\ proof = honest_proof(setup)
             /\ params = setup.params
             /\ challenges = [fri_alpha |-> setup.alpha, fri_betas |-> setup.betas,
                              fri_pow_response |-> 1, fri_query_indices |-> setup.indices]
             /\ precomputed_reduced_evals = from_os_and_alpha(honest_openings(setup), setup.alpha,
                                                              setup.params.hiding)
    /\ tamper = NoTamper
    /\ pc = "observe_opening_set"
    /\ err = "none"
    /\ transcript = <<>>
    /\ round = 0
    /\ step = 0
    /\ x_index = 0
    /\ subgroup_x = F_ZERO
    /\ old_eval = EXT_ZERO

\* verify_fri_proof, lines 132-155: observe_opening_set, alpha, the caps and
\* betas, the final polynomial, the proof-of-work hash.
CircuitAdvanceTranscript ==
    /\ pc \in {"observe_opening_set", "alpha", "observe_cap", "beta", "observe_final_poly", "pow"}
    /\ \E res \in {circuit_transcript_step(pc, step, proof)} :
          /\ transcript' = Append(transcript, res.op)
          /\ pc' = res.pc
          /\ step' = res.i
    /\ UNCHANGED <<inputs, err, round, x_index, subgroup_x, old_eval, precomputed_reduced_evals>>

\* fri_verifier_query_round, line 318: x_index = challenger.get_challenge.
CircuitGetIndex ==
    /\ pc = "get_index"
    /\ round < Len(proof.query_round_proofs)
    /\ transcript' = Append(transcript, <<"get_challenge">>)
    /\ x_index' = At(challenges.fri_query_indices, round)
    /\ pc' = "verify_round"
    /\ UNCHANGED <<inputs, err, round, step, subgroup_x, old_eval, precomputed_reduced_evals>>

\* fri_verifier_query_round, lines 319-418: the constraints of the round.
CircuitVerifyRound ==
    /\ pc = "verify_round"
    /\ err' = IF satisfiable(circuit_round(round)) THEN err ELSE "Unsatisfiable"
    /\ round' = round + 1
    /\ pc' = IF round + 1 < Len(proof.query_round_proofs) THEN "get_index" ELSE "built"
    /\ UNCHANGED <<inputs, transcript, step, x_index, subgroup_x, old_eval, precomputed_reduced_evals>>

CircuitNext ==
    \/ CircuitAdvanceTranscript
    \/ CircuitGetIndex
    \/ CircuitVerifyRound

CircuitSpec == CircuitInit /\ [][CircuitNext]_vars

\* The operations of a whole build, in the order the claim gives them, with the
\* proof-of-work hash drawn between the final polynomial and the query indices.
RECURSIVE caps_and_betas(_, _)
caps_and_betas(i, num_caps) ==
    IF i >= num_caps THEN <<>>
    ELSE <<<<"observe_cap", i>>, <<"get_extension_challenge">>>> \o caps_and_betas(i + 1, num_caps)

expected_transcript ==
    <<<<"observe_opening_set">>, <<"get_extension_challenge">>>>
    \o caps_and_betas(0, Len(proof.commit_phase_merkle_caps))
    \o <<<<"observe_extension_elements">>, <<"get_hash">>>>
    \o [r \in 1..Len(proof.query_round_proofs) |-> <<"get_challenge">>]

indices_drawn == Cardinality({k \in 1..Len(transcript) : transcript[k] = <<"get_challenge">>})

\* C16: the arithmetized verify_fri_proof advances the transcript in one fixed
\* order (openings, alpha, each cap followed by its beta, the final polynomial,
\* then the query indices), all of it up to the first query index before any
\* round's verification; the index of round r is drawn at the start of round r,
\* after the verification of the rounds before it.
C16_TranscriptOrder ==
    /\ Len(transcript) <= Len(expected_transcript)
    /\ transcript = SubSeq(expected_transcript, 1, Len(transcript))
    /\ pc = "verify_round" => indices_drawn = round + 1
    /\ pc = "get_index" => indices_drawn = round
    /\ pc = "built" => transcript = expected_transcript

\* C16 as stated: every round's query index is drawn before any round's
\* verification begins.
C16_Original ==
    pc = "verify_round" => indices_drawn = Len(proof.query_round_proofs)

\* The verification of round 0 begins with one index drawn out of two.
C16_Witness ==
    /\ pc = "verify_round" /\ round = 0
    /\ Len(proof.query_round_proofs) = 2
    /\ indices_drawn = 1
    /\ Len(proof.commit_phase_merkle_caps) = 2

\* ------------------------------------------------------------------ query rounds in any order
\* The calls of fri_verifier_query_round made in any order and interleaving. Each
\* call owns its locals (x_index, subgroup_x, old_eval and its place in the
\* loop); here the variable round holds them, one record per round.
RoundLocal(w, s) ==
    [pc |-> w.pc, err |-> w.err, x_index |-> w.x_index, subgroup_x |-> w.subgroup_x,
     old_eval |-> w.old_eval, step |-> s]

\* The next step of round r (0-based) from its locals w.
round_step(w, r, instance_, challenges_, precomputed, initial_merkle_caps_, proof_, params_) ==
    LET round_proof == At(proof_.query_round_proofs, r)
    IN IF w.pc = "todo"
       THEN RoundLocal(query_round_init(instance_, challenges_, precomputed, initial_merkle_caps_,
                                        At(challenges_.fri_query_indices, r), lde_size(params_),
                                        round_proof, params_), 0)
       ELSE IF w.step < Len(params_.reduction_arity_bits)
       THEN RoundLocal(fold_step(proof_, challenges_, round_proof, params_, w.step,
                                 w.x_index, w.subgroup_x, w.old_eval), w.step + 1)
       ELSE IF final_check(proof_, w.subgroup_x, w.old_eval)
       THEN [w EXCEPT !.pc = "passed"]
       ELSE [w EXCEPT !.pc = "rejected", !.err = FinalPolynomialMismatch]

\* The verdict taken from the first round alone.
rounds_verdict_first_round(locals) ==
    IF locals[1].pc = "rejected" THEN "rejected"
    ELSE IF locals[1].pc = "passed" THEN "accepted"
    ELSE "rounds"

\* verify_fri_proof, lines 94-112: an Err of any round is returned; Ok(()) once
\* every round has returned Ok.
rounds_verdict(locals) ==
    IF \E r \in 1..Len(locals) : locals[r].pc = "rejected" THEN "rejected"
    ELSE IF \A r \in 1..Len(locals) : locals[r].pc = "passed" THEN "accepted"
    ELSE "rounds"

\* Honest and corrupted proofs that pass the entry checks, at the loop over
\* rounds; the first round queries index 1 or the last but one.
RoundsInit ==
    /\ \E sc \in {s \in Scenarios : /\ s.family \in {"honest", "corrupt"}
                                    /\ s.idx0 \in {1, Pow2(DegreeBits + 1) - 2}} :
          \E setup \in {make_setup(sc)} :
             \E hproof \in {honest_proof(setup)}, hcaps \in {honest_caps(setup)} :
                /\ instance = setup.instance
                /\ openings = honest_openings(setup)
                /\ \E t \in TampersOf(sc) :
                      /\ initial_merkle_caps = tamper_caps(hcaps, t)
                      /\ proof = tamper_proof(hproof, t)
                      /\ tamper = t
                /\ params = setup.params
                /\ challenges = [fri_alpha |-> setup.alpha, fri_betas |-> setup.betas,
                                 fri_pow_response |-> 1, fri_query_indices |-> setup.indices]
                /\ precomputed_reduced_evals = from_os_and_alpha(honest_openings(setup), setup.alpha,
                                                                 setup.params.hiding)
    /\ pc = "rounds"
    /\ err = "none"
    /\ transcript = <<>>
    /\ round = [r \in 1..NumRounds |-> RoundLocal(Walk("todo", "none", 0, F_ZERO, EXT_ZERO), 0)]
    /\ step = 0
    /\ x_index = 0
    /\ subgroup_x = F_ZERO
    /\ old_eval = EXT_ZERO

\* Any round that has not returned takes its next step.
EvaluateRound ==
    /\ pc = "rounds"
    /\ \E r \in 1..Len(round) :
          /\ round[r].pc \in {"todo", "walk"}
          /\ \E w \in {round_step(round[r], r - 1, instance, challenges, precomputed_reduced_evals,
                                  initial_merkle_caps, proof, params)} :
                /\ round' = [round EXCEPT ![r] = w]
                /\ pc' = rounds_verdict(round')
                /\ err' = IF w.pc = "rejected" THEN w.err ELSE err
    /\ UNCHANGED <<inputs, transcript, step, x_index, subgroup_x, old_eval, precomputed_reduced_evals>>

RoundsSpec == RoundsInit /\ [][EvaluateRound]_vars

\* Whether round r (0-based) passes, walked from the inputs alone.
RECURSIVE walk_passes(_, _, _)
walk_passes(w, s, r) ==
    IF w.pc # "walk" THEN FALSE
    ELSE IF s >= Len(params.reduction_arity_bits)
    THEN final_check(proof, w.subgroup_x, w.old_eval)
    ELSE walk_passes(fold_step(proof, challenges, At(proof.query_round_proofs, r), params, s,
                               w.x_index, w.subgroup_x, w.old_eval), s + 1, r)

round_passes(r) ==
    walk_passes(query_round_init(instance, challenges, precomputed_reduced_evals, initial_merkle_caps,
                                 At(challenges.fri_query_indices, r), lde_size(params),
                                 At(proof.query_round_proofs, r), params), 0, r)

\* C17: whatever the order and interleaving in which the query rounds are
\* evaluated, the verdict is accept exactly when every round passes on the
\* shared inputs: an accepted run has every round passing, a rejected run has a
\* failing round, a round that has returned holds the result of its own walk,
\* and a run without verdict always has a round left to step.
C17_RoundIndependence ==
    /\ pc = "accepted" => \A r \in 1..Len(round) : round_passes(r - 1)
    /\ pc = "rejected" => \E r \in 1..Len(round) : ~round_passes(r - 1)
    /\ \A r \in 1..Len(round) :
          /\ round[r].pc = "passed" => round_passes(r - 1)
          /\ round[r].pc = "rejected" => ~round_passes(r - 1)
    /\ pc = "rounds" => \E r \in 1..Len(round) : round[r].pc \in {"todo", "walk"}

\* The second round evaluated first and rejected while the first has not
\* started, and the first round would pass.
C17_Witness ==
    /\ pc = "rejected"
    /\ round[1].pc = "todo"
    /\ round[2].pc = "rejected"
    /\ round_passes(0)

\* ------------------------------------------------------------------ a second run
\* verify_fri_proof evaluated again on the inputs as they stand: the verdict and
\* the failing check of a whole run.
RECURSIVE rerun_walk(_, _, _)
rerun_walk(w, s, r) ==
    IF w.pc # "walk" THEN [pc |-> w.pc, err |-> w.err]
    ELSE IF s >= Len(params.reduction_arity_bits)
    THEN IF final_check(proof, w.subgroup_x, w.old_eval)
         THEN [pc |-> "passed", err |-> "none"]
         ELSE [pc |-> "rejected", err |-> FinalPolynomialMismatch]
    ELSE rerun_walk(fold_step(proof, challenges, At(proof.query_round_proofs, r), params, s,
                              w.x_index, w.subgroup_x, w.old_eval), s + 1, r)

RECURSIVE rerun_rounds(_, _)
rerun_rounds(r, precomputed) ==
    IF r >= num_zipped_rounds(challenges, proof) THEN [pc |-> "accepted", err |-> "none"]
    ELSE LET res == rerun_walk(query_round_init(instance, challenges, precomputed,
                                                initial_merkle_caps,
                                                At(challenges.fri_query_indices, r),
                                                lde_size(params),
                                                At(proof.query_round_proofs, r), params), 0, r)
         IN IF res.pc = "passed" THEN rerun_rounds(r + 1, precomputed) ELSE res

rerun ==
    LET shape == entry_checks("shape", proof, instance, challenges, params)
        pow == entry_checks("pow", proof, instance, challenges, params)
        coherent == entry_checks("coherent", proof, instance, challenges, params)
    IN IF shape.pc = "rejected" THEN shape
       ELSE IF pow.pc = "rejected" THEN pow
       ELSE IF coherent.pc = "rejected" THEN coherent
       ELSE rerun_rounds(0, from_os_and_alpha(openings, challenges.fri_alpha, params.hiding))

reverse_bits_wide_low_shift(n, num_bits) ==
    LET reversed == {USIZE_BITS - 1 - b : b \in n}
        amount == num_bits % USIZE_BITS
    IN {b - amount : b \in {c \in reversed : c >= amount}}

\* util::reverse_bits: usize::reverse_bits, then overflowing_shr, which takes
\* the shift amount modulo the width.
reverse_bits_wide(n, num_bits) ==
    LET reversed == {USIZE_BITS - 1 - b : b \in n}
        amount == (USIZE_BITS - num_bits) % USIZE_BITS
    IN {b - amount : b \in {c \in reversed : c >= amount}}

\* The inputs are values below 2^num_bits: zero, all ones, the low m bits, one
\* bit, two bits one of which is the lowest or the highest, and 0b01011.
BitsInit ==
    /\ \E num_bits \in 0..USIZE_BITS :
          \E n \in {{}, 0..(num_bits - 1)}
                    \cup {0..(m - 1) : m \in 1..num_bits}
                    \cup {{a} : a \in 0..(num_bits - 1)}
                    \cup {{0, a} : a \in 0..(num_bits - 1)}
                    \cup {{a, num_bits - 1} : a \in 0..(num_bits - 1)}
                    \cup (IF num_bits >= 4 THEN {{0, 1, 3}} ELSE {}) :
             /\ step = num_bits
             /\ subgroup_x = n
             /\ x_index = n
    /\ instance = make_instance(OutPoint)
    /\ openings = [batches |-> <<>>]
    /\ challenges = [fri_alpha |-> EXT_ONE, fri_betas |-> <<>>,
                     fri_pow_response |-> 0, fri_query_indices |-> <<>>]
    /\ initial_merkle_caps = <<>>
    /\ proof = [commit_phase_merkle_caps |-> <<>>, query_round_proofs |-> <<>>, final_poly |-> <<>>]
    /\ params = make_params(<<>>, 0)
    /\ tamper = NoTamper
    /\ pc = "reverse_bits"
    /\ err = "none"
    /\ transcript = <<>>
    /\ round = 0
    /\ old_eval = EXT_ZERO
    /\ precomputed_reduced_evals = <<>>

\* x_index = reverse_bits(x_index, num_bits), applied once and once more.
ReverseBits ==
    /\ pc \in {"reverse_bits", "reversed"}
    /\ x_index' = reverse_bits_wide(x_index, step)
    /\ pc' = IF pc = "reverse_bits" THEN "reversed" ELSE "reversed_twice"
    /\ round' = round + 1
    /\ UNCHANGED <<inputs, transcript, err, step, subgroup_x, old_eval, precomputed_reduced_evals>>

BitsSpec == BitsInit /\ [][ReverseBits]_vars

\* The number whose one bits are at the positions of n (below 2^31).
RECURSIVE bits_value(_)
bits_value(n) ==
    IF n = {} THEN 0
    ELSE LET b == CHOOSE c \in n : TRUE IN Pow2(b) + bits_value(n \ {b})

\* C19: for 0 <= num_bits <= 64 and n < 2^num_bits, bit i of reverse_bits(n,
\* num_bits) is bit num_bits - 1 - i of n, so reverse_bits(0, 0) = 0, and a
\* second application with the same num_bits returns n; on the values that fit
\* the verifier's integer reverse_bits is the same function.
C19_ReverseBits ==
    /\ pc = "reversed" =>
          /\ x_index = {step - 1 - b : b \in subgroup_x}
          /\ (step = 0 => x_index = {})
          /\ (step <= 30 => reverse_bits(bits_value(subgroup_x), step) = bits_value(x_index))
    /\ pc = "reversed_twice" => x_index = subgroup_x

\* The 64-bit reversal of 0b100001 is 2^63 + 2^58.
C19_Witness ==
    pc = "reversed" /\ step = 64 /\ subgroup_x = {0, 5} /\ x_index = {58, 63}

\* ------------------------------------------------------------------ reverse_index_bits alone
\* reverse_index_bits and reverse_index_bits_in_place applied, in any mix, to
\* arrays of any length: openings holds the array as given, old_eval the array
\* as it stands, round the number of applications.
IndexBitsInit ==
    /\ \E n \in {0, 1, 2, 3, 4, 6, 8, 16, 32, 48, 64, 96, 128, 200, 256, 512}, seed \in 0..MaxSeed :
          /\ openings = collect([i \in 1..n |-> IF seed = 0 THEN i - 1 ELSE (seed * (i - 1) + 10 * i * i) % 1000])
          /\ old_eval = openings
    /\ instance = make_instance(OutPoint)
    /\ challenges = [fri_alpha |-> EXT_ONE, fri_betas |-> <<>>,
                     fri_pow_response |-> 0, fri_query_indices |-> <<>>]
    /\ initial_merkle_caps = <<>>
    /\ proof = [commit_phase_merkle_caps |-> <<>>, query_round_proofs |-> <<>>, final_poly |-> <<>>]
    /\ params = make_params(<<>>, 0)
    /\ tamper = NoTamper
    /\ pc = "reverse_index_bits"
    /\ err = "none"
    /\ transcript = <<>>
    /\ round = 0
    /\ step = 0
    /\ x_index = 0
    /\ subgroup_x = F_ZERO
    /\ precomputed_reduced_evals = <<>>

\* arr = reverse_index_bits(&arr); log2_strict panics unless the length is a
\* power of two.
ReverseIndexBits ==
    /\ pc = "reverse_index_bits"
    /\ round < 2
    /\ IF is_power_of_two(Len(old_eval))
       THEN /\ old_eval' = reverse_index_bits(old_eval)
            /\ pc' = pc
       ELSE /\ old_eval' = old_eval
            /\ pc' = "panicked"
    /\ round' = round + 1
    /\ UNCHANGED <<inputs, transcript, err, step, x_index, subgroup_x, precomputed_reduced_evals>>

\* reverse_index_bits_in_place(&mut arr)
ReverseIndexBitsInPlace ==
    /\ pc = "reverse_index_bits"
    /\ round < 2
    /\ IF is_power_of_two(Len(old_eval))
       THEN /\ old_eval' = reverse_index_bits_in_place(old_eval)
            /\ pc' = pc
       ELSE /\ old_eval' = old_eval
            /\ pc' = "panicked"
    /\ round' = round + 1
    /\ UNCHANGED <<inputs, transcript, err, step, x_index, subgroup_x, precomputed_reduced_evals>>

IndexBitsSpec == IndexBitsInit /\ [][ReverseIndexBits \/ ReverseIndexBitsInPlace]_vars

\* C20: for a length n that is a power of two, on the small and on the large
\* path, one application of reverse_index_bits or of reverse_index_bits_in_place
\* leaves result[i] = arr[reverse_bits(i, log2 n)] for every i, so the in-place
\* form equals the copying form; two applications of either restore arr; any
\* other length panics and a power of two never does.
C20_ReverseIndexBits ==
    LET n == Len(openings)
    IN /\ (pc = "reverse_index_bits" /\ round = 1) =>
             \A i \in 0..(n - 1) : At(old_eval, i) = At(openings, reverse_bits(i, log2_strict(n)))
       /\ (pc = "reverse_index_bits" /\ round = 2) => old_eval = openings
       /\ (round >= 1) => (pc = "panicked" <=> ~is_power_of_two(n))

\* The large path on the 256 values 0 .. 255: entry 1 is 0x80, entry 3 is 0xc0.
C20_Witness ==
    /\ pc = "reverse_index_bits" /\ round = 1
    /\ Len(openings) = 256 /\ At(openings, 1) = 1
    /\ At(old_eval, 1) = 128 /\ At(old_eval, 3) = 192 /\ At(old_eval, 255) = 255

\* ------------------------------------------------------------------ insertion gate
\* gates/insertion.rs.  A gate is [vec_size, D]; a Range is [start, end) as a
\* record; a wire index is 0-based.  A witness holds base-field values; the
\* evaluation takes the wires as extension elements, and an element of the
\* extension algebra is the tuple of D wires of its range.
MaxVecSize == 3

Range(start_, end_) == [start |-> start_, end |-> end_]

InRange(w, range) == range.start <= w /\ w < range.end

wires_insertion_index(gate) == 0

wires_element_to_insert(gate) == Range(1, gate.D + 1)

wires_original_list_item(gate, i) == Range((i + 1) * gate.D + 1, (i + 1) * gate.D + 1 + gate.D)

start_of_output_wires(gate) == (gate.vec_size + 1) * gate.D + 1

wires_output_list_item(gate, i) == Range(start_of_output_wires(gate) + i * gate.D, start_of_output_wires(gate) + i * gate.D + gate.D)

start_of_intermediate_wires(gate) == start_of_output_wires(gate) + (gate.vec_size + 1) * gate.D

wires_equality_dummy_for_round_r(gate, r) == start_of_intermediate_wires(gate) + r

\* insert_here wires starting one wire early.
wires_insert_here_overlapping(gate, r) == start_of_intermediate_wires(gate) + gate.vec_size + r

wires_insert_here_for_round_r(gate, r) == start_of_intermediate_wires(gate) + (gate.vec_size + 1) + r

num_wires(gate) == wires_insert_here_for_round_r(gate, gate.vec_size) + 1

\* Vec::insert one position early.
vec_insert_before(v, index, element) ==
    collect([i \in 1..(Len(v) + 1) |->
        IF i < index THEN v[i] ELSE IF i = index \/ (index = 0 /\ i = 1) THEN element ELSE v[i - 1]])

\* Vec::insert(index, element) for index <= len (it panics otherwise).
vec_insert(v, index, element) ==
    collect([i \in 1..(Len(v) + 1) |->
        IF i - 1 < index THEN v[i] ELSE IF i - 1 = index THEN element ELSE v[i - 1]])

\* InsertionGate::eval_unfiltered: per round r the two equality constraints and
\* the D components of new_item - output_list_items[r].
eval_unfiltered(gate, local_wires) ==
    LET get_local_ext_algebra(range) == collect([k \in 1..gate.D |-> At(local_wires, range.start + k - 1)])
        scalar_mul(a, c) == collect([k \in 1..gate.D |-> ExtMul(a[k], c)])
        algebra_add(a, b) == collect([k \in 1..gate.D |-> ExtAdd(a[k], b[k])])
        algebra_sub(a, b) == collect([k \in 1..gate.D |-> ExtSub(a[k], b[k])])
        insertion_index == At(local_wires, wires_insertion_index(gate))
        list_items == collect([i \in 1..gate.vec_size |-> get_local_ext_algebra(wires_original_list_item(gate, i - 1))])
        output_list_items == collect([i \in 1..(gate.vec_size + 1) |-> get_local_ext_algebra(wires_output_list_item(gate, i - 1))])
        element_to_insert == get_local_ext_algebra(wires_element_to_insert(gate))
        RECURSIVE rounds(_, _, _)
        rounds(r, already_inserted, constraints) ==
            IF r > gate.vec_size THEN constraints
            ELSE LET cur_index == from_basefield(r % P)
                     difference == ExtSub(cur_index, insertion_index)
                     equality_dummy == At(local_wires, wires_equality_dummy_for_round_r(gate, r))
                     insert_here == At(local_wires, wires_insert_here_for_round_r(gate, r))
                     first == ExtSub(ExtMul(difference, equality_dummy), ExtSub(EXT_ONE, insert_here))
                     second == ExtMul(insert_here, difference)
                     item0 == scalar_mul(element_to_insert, insert_here)
                     item1 == IF r > 0 THEN algebra_add(item0, scalar_mul(At(list_items, r - 1), already_inserted)) ELSE item0
                     inserted == ExtAdd(already_inserted, insert_here)
                     new_item == IF r < gate.vec_size THEN algebra_add(item1, scalar_mul(At(list_items, r), ExtSub(EXT_ONE, inserted))) ELSE item1
                 IN rounds(r + 1, inserted, constraints \o <<first, second>> \o algebra_sub(new_item, At(output_list_items, r)))
    IN rounds(0, EXT_ZERO, <<>>)

\* InsertionGenerator::run_once on the witness of the input wires (insertion
\* index <= vec_size; Vec::insert panics otherwise): the witness completed with
\* the wires the generator sets, each written at its wire index.
run_once(gate, witness) ==
    LET get_local_wire(input) == At(witness, input)
        get_local_ext(wire_range) == collect([k \in 1..gate.D |-> get_local_wire(wire_range.start + k - 1)])
        vec_size == gate.vec_size
        orig_vec == collect([i \in 1..vec_size |-> get_local_ext(wires_original_list_item(gate, i - 1))])
        to_insert == get_local_ext(wires_element_to_insert(gate))
        insertion_index_f == get_local_wire(wires_insertion_index(gate))
        insertion_index == insertion_index_f
        new_vec == vec_insert(orig_vec, insertion_index, to_insert)
        equality_dummy_vals == collect([i \in 1..(vec_size + 1) |->
            IF i - 1 = insertion_index THEN F_ONE ELSE try_inverse(FSub((i - 1) % P, insertion_index_f))])
        insert_here_vals == vec_insert(collect([i \in 1..vec_size |-> F_ZERO]), insertion_index, F_ONE)
        set(w) ==
            IF \E i \in 0..vec_size : InRange(w, wires_output_list_item(gate, i))
            THEN LET i == CHOOSE j \in 0..vec_size : InRange(w, wires_output_list_item(gate, j))
                 IN At(At(new_vec, i), w - wires_output_list_item(gate, i).start)
            ELSE IF \E i \in 0..vec_size : w = wires_equality_dummy_for_round_r(gate, i)
            THEN At(equality_dummy_vals, CHOOSE j \in 0..vec_size : w = wires_equality_dummy_for_round_r(gate, j))
            ELSE At(insert_here_vals, CHOOSE j \in 0..vec_size : w = wires_insert_here_for_round_r(gate, j))
    IN collect([w \in 1..num_wires(gate) |-> IF w <= Len(witness) THEN witness[w] ELSE set(w - 1)])

\* The input wires of a gate: insertion index, element to insert, list items.
gate_inputs(gate, index, seed) ==
    <<index>> \o collect([w \in 1..(start_of_output_wires(gate) - 1) |-> (seed * w * w + 3 * w + 10) % P])

\* A witness a prover may present: the outputs are the list with the element
\* inserted at position place (place = vec_size + 1: the list followed by a
\* zero item), the dummies follow a policy and insert_here is any vector.
prover_wires(gate, in, place, dummy, insert_here) ==
    LET D == gate.D
        item(i) == collect([k \in 1..D |-> At(in, wires_original_list_item(gate, i).start + k - 1)])
        list == collect([i \in 1..gate.vec_size |-> item(i - 1)])
        element == collect([k \in 1..D |-> At(in, wires_element_to_insert(gate).start + k - 1)])
        zero == collect([k \in 1..D |-> F_ZERO])
        out == IF place <= gate.vec_size THEN vec_insert(list, place, element) ELSE list \o <<zero>>
        dummies == collect([r \in 1..(gate.vec_size + 1) |->
            IF dummy = "zero" THEN F_ZERO
            ELSE IF dummy = "one" \/ (r - 1) % P = At(in, 0) THEN F_ONE
            ELSE try_inverse(FSub((r - 1) % P, At(in, 0)))])
    IN in \o collect([w \in 1..((gate.vec_size + 1) * D) |-> out[((w - 1) \div D) + 1][((w - 1) % D) + 1]])
          \o dummies \o insert_here

GateInit ==
    /\ \E vec_size \in 0..MaxVecSize, D \in {1, 2, 4}, seed \in 1..MaxSeed, index \in (0..(MaxVecSize + 1)) \cup {P - 1} :
          /\ index <= vec_size + 1 \/ index = P - 1
          /\ instance = [vec_size |-> vec_size, D |-> D]
          /\ \/ /\ pc = "run_once"
                /\ proof = gate_inputs(instance, index, seed)
             \/ /\ pc = "eval_unfiltered"
                /\ \E place \in 0..(vec_size + 1), dummy \in {"inverse", "zero", "one"}, insert_here \in [1..(vec_size + 1) -> {0, 1, 2}] :
                      /\ \A r \in 1..(vec_size + 1) : insert_here[r] = 2 => \A q \in 1..(vec_size + 1) : q = r \/ insert_here[q] = 0
                      /\ proof = prover_wires(instance, gate_inputs(instance, index, seed), place, dummy, insert_here)
    /\ openings = proof
    /\ precomputed_reduced_evals = <<>>
    /\ challenges = [fri_alpha |-> EXT_ONE, fri_betas |-> <<>>,
                     fri_pow_response |-> 0, fri_query_indices |-> <<>>]
    /\ initial_merkle_caps = <<>>
    /\ params = make_params(<<>>, 0)
    /\ tamper = NoTamper
    /\ err = "none"
    /\ transcript = <<>>
    /\ round = 0
    /\ step = 0
    /\ x_index = 0
    /\ subgroup_x = F_ZERO
    /\ old_eval = EXT_ZERO

\* The generator fills the wires it is responsible for.
RunOnce ==
    /\ pc = "run_once"
    /\ IF At(proof, wires_insertion_index(instance)) <= instance.vec_size
       THEN /\ proof' = run_once(instance, proof)
            /\ pc' = "eval_unfiltered"
       ELSE /\ proof' = proof
            /\ pc' = "panicked"
    /\ step' = 1
    /\ UNCHANGED <<instance, openings, challenges, initial_merkle_caps, params, tamper, transcript, err, round, x_index, subgroup_x, old_eval, precomputed_reduced_evals>>

\* The gate's constraints on the wires, each wire embedded in the extension.
EvalUnfiltered ==
    /\ pc = "eval_unfiltered"
    /\ precomputed_reduced_evals' = eval_unfiltered(instance, collect([w \in 1..Len(proof) |-> from_basefield(proof[w])]))
    /\ pc' = "evaluated"
    /\ UNCHANGED <<instance, openings, challenges, initial_merkle_caps, proof, params, tamper, transcript, err, round, step, x_index, subgroup_x, old_eval>>

GateSpec == GateInit /\ [][RunOnce \/ EvalUnfiltered]_vars

\* The items of a witness: the original list, the element, the output list and
\* the insert_here wires.
gate_list(gate, wires) == collect([i \in 1..gate.vec_size |-> collect([k \in 1..gate.D |-> At(wires, wires_original_list_item(gate, i - 1).start + k - 1)])])

gate_element(gate, wires) == collect([k \in 1..gate.D |-> At(wires, wires_element_to_insert(gate).start + k - 1)])

gate_output(gate, wires) == collect([i \in 1..(gate.vec_size + 1) |-> collect([k \in 1..gate.D |-> At(wires, wires_output_list_item(gate, i - 1).start + k - 1)])])

all_zero(constraints) == \A c \in 1..Len(constraints) : constraints[c] = EXT_ZERO

\* C21: for every vec_size and every insertion index in 0..=vec_size, the wires
\* computed by InsertionGenerator::run_once (the output is the list with the
\* element inserted at the index, equality_dummy is 1 at the index and
\* 1/(r - index) elsewhere, insert_here is 1 at the index and 0 elsewhere) make
\* every constraint of eval_unfiltered zero.
C21_GeneratorSatisfies ==
    (pc \in {"eval_unfiltered", "evaluated"} /\ step = 1) =>
        LET vs == instance.vec_size
            index == At(proof, wires_insertion_index(instance))
        IN /\ index <= vs
           /\ Len(proof) = num_wires(instance)
           /\ gate_output(instance, proof) = vec_insert(gate_list(instance, proof), index, gate_element(instance, proof))
           /\ \A r \in 0..vs :
                 /\ At(proof, wires_insert_here_for_round_r(instance, r)) = (IF r = index THEN 1 ELSE 0)
                 /\ At(proof, wires_equality_dummy_for_round_r(instance, r)) = (IF r = index THEN 1 ELSE try_inverse(FSub(r, index)))
           /\ pc = "evaluated" =>
                 /\ Len(precomputed_reduced_evals) = (vs + 1) * (2 + instance.D)
                 /\ all_zero(precomputed_reduced_evals)

\* The generator's wires for a list of three items and an insertion in the
\* middle, evaluated.
C21_Witness ==
    /\ pc = "evaluated" /\ step = 1
    /\ instance.vec_size = 3 /\ instance.D = 4
    /\ At(proof, wires_insertion_index(instance)) = 1
    /\ all_zero(precomputed_reduced_evals)

\* The wire indices of a range.
range_set(range) == {w \in 0..range.end : InRange(w, range)}

\* C22: the wire groups of an InsertionGate (insertion index, element to insert,
\* original list items, output list items, equality dummies, insert_here) are
\* pairwise disjoint and together are exactly the wires 0 .. num_wires - 1; for
\* vec_size = 3 and D = 4 they are 0, 1..5, 5..17, 17..33, 33..37 and 37..41.
C22_WireLayout ==
    LET gate == instance
        vs == gate.vec_size
        groups == <<{wires_insertion_index(gate)},
                    range_set(wires_element_to_insert(gate)),
                    UNION {range_set(wires_original_list_item(gate, i)) : i \in 0..(vs - 1)},
                    UNION {range_set(wires_output_list_item(gate, i)) : i \in 0..vs},
                    {wires_equality_dummy_for_round_r(gate, r) : r \in 0..vs},
                    {wires_insert_here_for_round_r(gate, r) : r \in 0..vs}>>
        sizes == <<1, gate.D, vs * gate.D, (vs + 1) * gate.D, vs + 1, vs + 1>>
    IN /\ \A a, b \in 1..6 : a # b => groups[a] \cap groups[b] = {}
       /\ \A a \in 1..6 : Cardinality(groups[a]) = sizes[a]
       /\ UNION {groups[a] : a \in 1..6} = 0..(num_wires(gate) - 1)
       /\ \A i, j \in 0..(vs - 1) : i # j => range_set(wires_original_list_item(gate, i)) \cap range_set(wires_original_list_item(gate, j)) = {}
       /\ \A i, j \in 0..vs : i # j => range_set(wires_output_list_item(gate, i)) \cap range_set(wires_output_list_item(gate, j)) = {}
       /\ (vs = 3 /\ gate.D = 4) =>
             groups = <<{0}, 1..4, 5..16, 17..32, 33..36, 37..40>>

\* The gate of the wire_indices test with all its 41 wires assigned.
C22_Witness ==
    /\ instance.vec_size = 3 /\ instance.D = 4
    /\ pc = "evaluated"
    /\ Len(proof) = 41
    /\ num_wires(instance) = 41

\* What the claim of C24 concludes from satisfied constraints: insert_here is
\* 0 or 1 in every round, it is 1 in exactly the round r = insertion_index, and
\* the output list is the original list with the element inserted there.
inserted_at_index ==
    LET vs == instance.vec_size
        index == At(proof, wires_insertion_index(instance))
        insert_here(r) == At(proof, wires_insert_here_for_round_r(instance, r))
    IN /\ \A r \in 0..vs : insert_here(r) \in {0, 1}
       /\ Cardinality({r \in 0..vs : insert_here(r) = 1}) = 1
       /\ index <= vs
       /\ insert_here(index) = 1
       /\ gate_output(instance, proof) = vec_insert(gate_list(instance, proof), index, gate_element(instance, proof))

\* C24: whenever all constraints of eval_unfiltered are zero, every
\* insert_here[r] is 0 or 1, exactly one of them is 1 and it is the one at
\* r = insertion_index, and the output list is the original list with the
\* element inserted at insertion_index; no assignment whose insertion index
\* lies outside 0..=vec_size satisfies the constraints.
C24_ConstraintsForceInsertion ==
    (pc = "evaluated" /\ all_zero(precomputed_reduced_evals)) => inserted_at_index

\* ------------------------------------------------------------------ ALU addition
\* evm/src/alu/add.rs.  A row lv is held as its three groups of columns
\* (ADD_INPUT_0, ADD_INPUT_1, ADD_OUTPUT), N_LIMBS limbs of LIMB_BITS bits each,
\* least significant limb first.
N_LIMBS == 16
LIMB_BITS == 16

\* add::generate.  The cy bound by `let cy = s >> LIMB_BITS` inside the loop
\* body is a new binding that ends with the iteration; the cy read by
\* `a + b + cy` is the one bound to 0 before the loop.
generate(lv) ==
    LET input0_limbs == lv.ADD_INPUT_0
        input1_limbs == lv.ADD_INPUT_1
        MASK == Pow2(LIMB_BITS) - 1
        cy == 0
        output_limbs == collect([i \in 1..N_LIMBS |->
            LET s == input0_limbs[i] + input1_limbs[i] + cy
            IN s % (MASK + 1)])
    IN [lv EXCEPT !.ADD_OUTPUT = output_limbs]

\* A 256-bit input: the lowest limb, the limbs between and the highest limb.
alu_input(lo, mid, hi) == collect([i \in 1..N_LIMBS |-> IF i = 1 THEN lo ELSE IF i = N_LIMBS THEN hi ELSE mid])

AluInit ==
    /\ \E a, b \in {alu_input(lo, mid, hi) : lo \in {0, 1, Pow2(LIMB_BITS) - 1}, mid \in {0, Pow2(LIMB_BITS - 1), Pow2(LIMB_BITS) - 1}, hi \in {0, Pow2(LIMB_BITS) - 1}} :
          openings = [ADD_INPUT_0 |-> a, ADD_INPUT_1 |-> b, ADD_OUTPUT |-> collect([i \in 1..N_LIMBS |-> 0])]
    /\ pc = "generate"
    /\ instance = make_instance(<<5, 0>>)
    /\ proof = [commit_phase_merkle_caps |-> <<>>, query_round_proofs |-> <<>>, final_poly |-> <<>>]
    /\ precomputed_reduced_evals = <<>>
    /\ challenges = [fri_alpha |-> EXT_ONE, fri_betas |-> <<>>,
                     fri_pow_response |-> 0, fri_query_indices |-> <<>>]
    /\ initial_merkle_caps = <<>>
    /\ params = make_params(<<>>, 0)
    /\ tamper = NoTamper
    /\ err = "none"
    /\ transcript = <<>>
    /\ round = 0
    /\ step = 0
    /\ x_index = 0
    /\ subgroup_x = F_ZERO
    /\ old_eval = EXT_ZERO

\* generate(&mut lv)
Generate ==
    /\ pc = "generate"
    /\ openings' = generate(openings)
    /\ pc' = "generated"
    /\ UNCHANGED <<instance, challenges, initial_merkle_caps, proof, params, tamper, transcript, err, round, step, x_index, subgroup_x, old_eval, precomputed_reduced_evals>>

AluSpec == AluInit /\ [][Generate]_vars

\* The limbs of (a + b) mod 2^256: limb i of the sum with the carry out of limb
\* i - 1 added in, the carry out of the last limb dropped.
RECURSIVE sum_limbs(_, _, _, _)
sum_limbs(a, b, i, carry) ==
    IF i > N_LIMBS THEN <<>>
    ELSE <<(a[i] + b[i] + carry) % Pow2(LIMB_BITS)>> \o sum_limbs(a, b, i + 1, (a[i] + b[i] + carry) \div Pow2(LIMB_BITS))

\* C23: generate writes to ADD_OUTPUT the 16-bit limbs of
\* (input0 + input1) mod 2^256: the carry out of each limb is added into the
\* next limb, only the carry out of the last limb is dropped, and every output
\* limb is below 2^16.
C23_AddWithCarry ==
    pc = "generated" =>
        /\ openings.ADD_OUTPUT = sum_limbs(openings.ADD_INPUT_0, openings.ADD_INPUT_1, 1, 0)
        /\ \A i \in 1..N_LIMBS : openings.ADD_OUTPUT[i] < Pow2(LIMB_BITS)

\* ------------------------------------------------------------------ cosets of compute_evaluation
\* The points compute_evaluation interpolates (verifier.rs lines 33-45).
evaluation_points(x, x_index_within_coset, arity_bits, evals) ==
    LET g == primitive_root_of_unity(arity_bits)
        rev_x_index_within_coset == reverse_bits(x_index_within_coset, arity_bits)
        coset_start == FMul(x, exp_u64(g, Pow2(arity_bits) - rev_x_index_within_coset))
    IN coset_points(coset_start, g, reverse_index_bits_in_place(evals))

\* C25: in compute_evaluation the point paired with evals[x_index_within_coset]
\* is x itself (also when the reversed index is 0) and the points are the coset
\* of x; two queries of the same coset, each with its own subgroup_x (the
\* element of the coset at its own reversed index) and its own index within the
\* coset, with the same evals and beta, get the same folded value; so do two
\* query indices of the LDE domain with the same coset index, each with the
\* subgroup_x the query round derives from it.
C25_SameCosetSameValue ==
    pc = "evaluated" =>
        LET ab == arity_bits_now
            g == primitive_root_of_unity(ab)
            beta == At(challenges.fri_betas, step)
            points == evaluation_points(subgroup_x, x_index, ab, evals_now)
            first == FMul(subgroup_x, exp_u64(g, Pow2(ab) - reverse_bits(x_index, ab)))
            x_of(k) == FMul(first, exp_u64(g, reverse_bits(k, ab)))
        IN /\ old_eval = interpolate(points, beta, barycentric_weights(points))
           /\ At(points, reverse_bits(x_index, ab)) = <<from_basefield(subgroup_x), At(evals_now, x_index)>>
           /\ {points[i][1] : i \in 1..Len(points)} = {from_basefield(FMul(subgroup_x, exp_u64(g, i))) : i \in 0..(Pow2(ab) - 1)}
           /\ x_of(x_index) = subgroup_x
           /\ \A k \in 0..(Pow2(ab) - 1) :
                 /\ evaluation_points(x_of(k), k, ab, evals_now) = points
                 /\ compute_evaluation(x_of(k), k, ab, evals_now, beta) = old_eval
           /\ \A coset_index \in 0..((lde_size(params) \div Pow2(ab)) - 1) :
                 \E value \in {compute_evaluation(initial_subgroup_x(coset_index * Pow2(ab), lde_size(params)), 0, ab, evals_now, beta)} :
                     \A k \in 1..(Pow2(ab) - 1) :
                         compute_evaluation(initial_subgroup_x(coset_index * Pow2(ab) + k, lde_size(params)), k, ab, evals_now, beta) = value

\* An evaluation over a coset of four at the index whose reversal is 1, where
\* the coset does not start at x.
C25_Witness ==
    /\ pc = "evaluated"
    /\ arity_bits_now = 2
    /\ x_index = 2
    /\ subgroup_x = 3
    /\ At(evaluation_points(subgroup_x, x_index, 2, evals_now), 0)[1] # from_basefield(subgroup_x)

\* C26: the arithmetized compute_evaluation uses the coset start of the native
\* one: (g^-1)^rev, computed from the reversed little-endian bits of the index
\* within the coset with g^-1 = g^(arity - 1), equals g^(arity - rev) for every
\* index within the coset, rev being the arity_bits-bit reversal of the index;
\* both variants interpolate over the same points and return the same value.
C26_CircuitCosetStart ==
    pc = "evaluated" =>
        LET ab == arity_bits_now
            arity == Pow2(ab)
            g == primitive_root_of_unity(ab)
            g_inv == exp_u64(g, arity - 1)
            beta == At(challenges.fri_betas, step)
            start(k) == exp_from_bits_const_base(g_inv, rev(low_bits(k, ab)))
        IN /\ FMul(g, g_inv) = F_ONE
           /\ \A k \in 0..(arity - 1) :
                 /\ le_sum(rev(low_bits(k, ab))) = reverse_bits(k, ab)
                 /\ start(k) = exp_u64(g, arity - reverse_bits(k, ab))
           /\ coset_points(FMul(start(x_index), subgroup_x), g, reverse_index_bits_in_place(evals_now))
                  = evaluation_points(subgroup_x, x_index, ab, evals_now)
           /\ circuit_compute_evaluation(subgroup_x, low_bits(x_index, ab), ab, evals_now, beta) = old_eval

\* An evaluation at index 1 of a coset of four: the reversal is 2 and the coset
\* start is g^2 times x.
C26_Witness ==
    /\ pc = "evaluated"
    /\ arity_bits_now = 2
    /\ x_index = 1
    /\ subgroup_x = 5
    /\ exp_from_bits_const_base(exp_u64(primitive_root_of_unity(2), 3), rev(low_bits(x_index, 2))) = exp_u64(primitive_root_of_unity(2), 2)

\* ------------------------------------------------------------------ cap index
\* The cap index taken from the low bits of the query index.
circuit_cap_index_low(x_index_, n, cap_height) ==
    le_sum(SubSeq(low_bits(x_index_, log2_strict(n)), 1, cap_height))

\* CircuitBuilder::fri_verifier_query_round, lines 316-321: the little-endian sum
\* of the last cap_height bits of x_index_bits.
circuit_cap_index(x_index_, n, cap_height) ==
    LET n_log == log2_strict(n)
        x_index_bits == low_bits(x_index_, n_log)
    IN le_sum(SubSeq(x_index_bits, Len(x_index_bits) - cap_height + 1, Len(x_index_bits)))

\* C27: the cap index the arithmetized round computes once from the top
\* cap_height bits of the initial query index is, at the initial trees and at
\* every folding layer, the top cap_height bits of that layer's coset index,
\* which is the cap entry the native verifier reaches by walking the layer's
\* Merkle path from coset_index.
C27_CapIndex ==
    pc = "walk" =>
        LET n == lde_size(params)
            n_log == log2_strict(n)
            ch == params.config.cap_height
            ab == params.reduction_arity_bits
            x0 == At(challenges.fri_query_indices, round)
            cap_index == circuit_cap_index(x0, n, ch)
            initial == round_proof_now.initial_trees_proof.evals_proofs
        IN /\ cap_index = x0 \div Pow2(n_log - ch)
           /\ \A o \in 1..Len(initial) :
                 /\ Len(initial[o][2]) = n_log - ch
                 /\ merkle_walk(x0, hash_or_noop(initial[o][1]), initial[o][2])[1] = cap_index
           /\ \A i \in 0..(Len(ab) - 1) :
                 LET bits == n_log - consumed_bits(ab, i + 1)
                     coset_index_bits == SubSeq(low_bits(x0, n_log), consumed_bits(ab, i + 1) + 1, n_log)
                     coset_index == index_at_step(ab, x0, i + 1)
                     siblings == At(round_proof_now.steps, i).merkle_proof
                 IN /\ ch <= bits
                    /\ le_sum(coset_index_bits) = coset_index
                    /\ cap_index = coset_index \div Pow2(bits - ch)
                    /\ Len(siblings) = bits - ch
                    /\ merkle_walk(coset_index, hash_or_noop(flatten(At(round_proof_now.steps, i).evals)), siblings)[1] = cap_index
           /\ step < Len(ab) => x_index \div Pow2(arity_bits_now) = index_at_step(ab, x0, step + 1)

\* A walk at its second layer under a cap of two entries, in the upper half of
\* the domain: the cap index is 1 although the layer's coset index is 3.
C27_Witness ==
    /\ pc = "walk"
    /\ step = 1
    /\ params.reduction_arity_bits = <<1, 1>>
    /\ params.config.cap_height = 1
    /\ At(challenges.fri_query_indices, round) = 7
    /\ circuit_cap_index(7, lde_size(params), 1) = 1
    /\ x_index = 3

\* ------------------------------------------------------------------ trailing polynomials
\* C28: for the first batch, the number of trailing polynomials that
\* fri_combine_initial leaves out of the alpha-reduction of the queried
\* evaluations equals the number of trailing opening values that
\* from_os_and_alpha leaves out of the reduced opening, with and without hiding,
\* so that the reduced opening is the reduction of the openings of the
\* polynomials fri_combine_initial reduces; neither count exceeds the length it
\* is subtracted from.
C28_SameTrailingCount ==
    pc \in {"combine", "combined"} =>
        LET polynomials == instance.batches[1].polynomials
            values == openings.batches[1].values
            left_out_of_evals == nb_r_polys_of(polynomials)
            left_out_of_openings == (IF params.hiding THEN 1 ELSE 0) * 2
        IN /\ left_out_of_evals = left_out_of_openings
           /\ left_out_of_evals <= Len(polynomials)
           /\ left_out_of_openings <= Len(values)
           /\ precomputed_reduced_evals[1] = reduce(challenges.fri_alpha, SubSeq(values, 1, Len(polynomials) - left_out_of_evals))

\* ------------------------------------------------------------------ batch inversion
\* Field::batch_multiplicative_inverse is run on its own: proof holds the input
\* vector x, precomputed_reduced_evals the returned vector, and step the number
\* of calls of Field::inverse the run made.
MaxBatch == 4

BatchElements == {EXT_ZERO, EXT_ONE, <<2, 3>>, <<0, 5>>, <<P - 1, 1>>}

\* The arguments of the calls of Field::inverse in batch_multiplicative_inverse(x):
\* none for the empty vector, x[0] for one entry, and the product of all entries
\* (cumul_prod) otherwise.
inverse_arguments(x) ==
    LET n == Len(x) IN
    IF n = 0 THEN <<>>
    ELSE IF n = 1 THEN <<At(x, 0)>>
    ELSE <<At(cumulative_products(x, 1, <<At(x, 0)>>), n - 1)>>

BatchInit ==
    /\ proof \in UNION {[1..n -> BatchElements] : n \in 0..MaxBatch}
    /\ pc = "batch_multiplicative_inverse"
    /\ instance = make_instance(<<5, 0>>)
    /\ openings = [batches |-> <<>>]
    /\ precomputed_reduced_evals = <<>>
    /\ challenges = [fri_alpha |-> EXT_ONE, fri_betas |-> <<>>,
                     fri_pow_response |-> 0, fri_query_indices |-> <<>>]
    /\ initial_merkle_caps = <<>>
    /\ params = make_params(<<>>, 0)
    /\ tamper = NoTamper
    /\ err = "none"
    /\ transcript = <<>>
    /\ round = 0
    /\ step = 0
    /\ x_index = 0
    /\ subgroup_x = F_ZERO
    /\ old_eval = EXT_ZERO

\* Self::batch_multiplicative_inverse(x); Field::inverse panics on zero
\* ("Tried to invert zero").
BatchMultiplicativeInverse ==
    /\ pc = "batch_multiplicative_inverse"
    /\ LET args == inverse_arguments(proof)
       IN /\ step' = Len(args)
          /\ IF \E i \in 1..Len(args) : args[i] = EXT_ZERO
             THEN /\ pc' = "panicked"
                  /\ UNCHANGED precomputed_reduced_evals
             ELSE /\ pc' = "inverted"
                  /\ precomputed_reduced_evals' = batch_multiplicative_inverse(proof)
    /\ UNCHANGED <<instance, openings, challenges, initial_merkle_caps, proof, params,
                   tamper, err, round, x_index, subgroup_x, old_eval, transcript>>

BatchSpec == BatchInit /\ [][BatchMultiplicativeInverse]_vars

\* C29: batch_multiplicative_inverse(x) panics exactly when some entry of x is
\* zero; otherwise it returns a vector of the length of x whose i-th entry is
\* the multiplicative inverse of x[i], for the lengths 0, 1, 2 and longer, and
\* calls Field::inverse once when the length is at least 2.
C29_BatchInverse ==
    pc \in {"inverted", "panicked"} =>
        /\ pc = "panicked" <=> \E i \in 1..Len(proof) : proof[i] = EXT_ZERO
        /\ Len(proof) >= 2 => step = 1
        /\ pc = "inverted" =>
              /\ Len(precomputed_reduced_evals) = Len(proof)
              /\ \A i \in 1..Len(proof) : ExtMul(proof[i], precomputed_reduced_evals[i]) = EXT_ONE

\* Three distinct non-zero entries inverted with one inversion.
C29_Witness ==
    /\ pc = "inverted"
    /\ proof = <<<<2, 3>>, <<0, 5>>, <<P - 1, 1>>>>
    /\ step = 1
    /\ Len(precomputed_reduced_evals) = 3

\* ------------------------------------------------------------------ k-th roots
\* Field::kth_root_u64 and the Rescue S-box layers over prime fields of several
\* orders: instance holds the order of the field, the power k and whether debug
\* assertions are compiled in; proof holds the argument (an element for
\* kth_root_u64, a state of W elements for the S-box layers), openings the state
\* after sbox_layer_a and precomputed_reduced_evals the value returned.
W == 12
MaxRootK == 8

\* Orders of prime fields: three does not divide order - 1 for 5, 11, 17 and 23,
\* and divides it for 7, 13 and P.
RootOrders == {5, 7, 11, 13, 17, 23, P}

RECURSIVE gcd(_, _)
gcd(a, b) == IF b = 0 THEN a ELSE gcd(b, a % b)

\* Field::is_monomial_permutation_u64 in the field of order p
is_monomial_permutation_u64(power, p) ==
    IF power = 0 THEN FALSE
    ELSE IF power = 1 THEN TRUE
    ELSE gcd(p - 1, power) = 1

\* Field::exp_u64 in the field of order p
RECURSIVE exp_u64_order_loop(_, _, _, _, _, _)
exp_u64_order_loop(current, product, power, j, nbits, p) ==
    IF j >= nbits THEN product
    ELSE exp_u64_order_loop((current * current) % p,
                            IF (power \div Pow2(j)) % 2 # 0 THEN (product * current) % p ELSE product,
                            power, j + 1, nbits, p)

\* Field::exp_biguint in the field of order p; the powers kth_root_u64 passes are
\* below p - 1 and have at most one 64-bit digit, and ONE.exp_power_of_2(64) is ONE.
exp_biguint(x, power, p) ==
    IF power = 0 THEN 1 % p
    ELSE exp_u64_order_loop(x % p, 1 % p, power, 0, bits_u64(power), p)

\* The loop of kth_root_u64 stopped at n = 0 whether or not k divides p.
kth_root_loop_first(x, k, p, n) == [panic |-> k = 0, n |-> 0, value |-> IF k = 0 THEN 0 ELSE exp_biguint(x, (p \div k) % (p - 1), p)]

\* The loop of kth_root_u64 from n on: the value returned, or the panic after
\* the loop.
RECURSIVE kth_root_loop(_, _, _, _)
kth_root_loop(x, k, p, n) ==
    IF n >= k THEN [panic |-> TRUE, n |-> n, value |-> 0]
    ELSE LET numerator == p + (p - 1) * n
         IN IF numerator % k = 0
            THEN [panic |-> FALSE, n |-> n, value |-> exp_biguint(x, (numerator \div k) % (p - 1), p)]
            ELSE kth_root_loop(x, k, p, n + 1)

\* Field::kth_root_u64: the debug assertion panics first where it is compiled in.
kth_root_u64(x, k, p, debug_assertions) ==
    IF debug_assertions /\ ~is_monomial_permutation_u64(k, p)
    THEN [panic |-> TRUE, n |-> 0, value |-> 0]
    ELSE kth_root_loop(x, k, p, 0)

\* Field::cube and Field::cube_root in the field of order p
cube(x, p) == (((x * x) % p) * x) % p

cube_root(x, p, debug_assertions) == kth_root_u64(x, 3, p, debug_assertions)

\* rescue::sbox_layer_a and rescue::sbox_layer_b
sbox_layer_a(x, p) == collect([i \in 1..W |-> cube(x[i], p)])

sbox_layer_b(x, p, debug_assertions) == collect([i \in 1..W |-> cube_root(x[i], p, debug_assertions)])

RootInit ==
    /\ \E p \in RootOrders, debug_assertions \in BOOLEAN :
          \/ /\ pc = "kth_root_u64"
             /\ \E k \in 0..MaxRootK : instance = [order |-> p, k |-> k, debug_assertions |-> debug_assertions]
             /\ proof \in 0..(p - 1)
          \/ /\ pc = "sbox_layer_a"
             /\ instance = [order |-> p, k |-> 3, debug_assertions |-> debug_assertions]
             /\ \E x0 \in 0..(p - 1), stride \in 1..MaxSeed :
                   proof = collect([i \in 1..W |-> (x0 + stride * (i - 1)) % p])
    /\ openings = <<>>
    /\ precomputed_reduced_evals = <<>>
    /\ challenges = [fri_alpha |-> EXT_ONE, fri_betas |-> <<>>,
                     fri_pow_response |-> 0, fri_query_indices |-> <<>>]
    /\ initial_merkle_caps = <<>>
    /\ params = make_params(<<>>, 0)
    /\ tamper = NoTamper
    /\ err = "none"
    /\ transcript = <<>>
    /\ round = 0
    /\ step = 0
    /\ x_index = 0
    /\ subgroup_x = F_ZERO
    /\ old_eval = EXT_ZERO

\* self.kth_root_u64(k); step records the n at which the loop stopped.
KthRoot ==
    /\ pc = "kth_root_u64"
    /\ LET r == kth_root_u64(proof, instance.k, instance.order, instance.debug_assertions)
       IN /\ pc' = IF r.panic THEN "panicked" ELSE "rooted"
          /\ step' = r.n
          /\ precomputed_reduced_evals' = IF r.panic THEN <<>> ELSE <<r.value>>
    /\ UNCHANGED <<instance, openings, challenges, initial_merkle_caps, proof, params,
                   tamper, err, round, x_index, subgroup_x, old_eval, transcript>>

\* xs = sbox_layer_a(xs)
SboxLayerA ==
    /\ pc = "sbox_layer_a"
    /\ openings' = sbox_layer_a(proof, instance.order)
    /\ pc' = "sbox_layer_b"
    /\ UNCHANGED <<instance, challenges, initial_merkle_caps, proof, params, tamper, err,
                   round, step, x_index, subgroup_x, old_eval, transcript,
                   precomputed_reduced_evals>>

\* xs = sbox_layer_b(xs)
SboxLayerB ==
    /\ pc = "sbox_layer_b"
    /\ LET r == sbox_layer_b(openings, instance.order, instance.debug_assertions)
       IN IF \E i \in 1..W : r[i].panic
          THEN /\ pc' = "panicked"
               /\ UNCHANGED precomputed_reduced_evals
          ELSE /\ pc' = "sbox_done"
               /\ precomputed_reduced_evals' = collect([i \in 1..W |-> r[i].value])
    /\ UNCHANGED <<instance, openings, challenges, initial_merkle_caps, proof, params,
                   tamper, err, round, step, x_index, subgroup_x, old_eval, transcript>>

RootNext == KthRoot \/ SboxLayerA \/ SboxLayerB

RootSpec == RootInit /\ [][RootNext]_vars

\* C30: for every k with gcd(k, order - 1) = 1 and every x, kth_root_u64(k)
\* finds its exponent at some n in 0..k, does not panic, and returns y with
\* y^k = x; when gcd(3, order - 1) = 1, sbox_layer_b returns the state that
\* sbox_layer_a was given, entry by entry.
C30_KthRoot ==
    LET p == instance.order
        k == instance.k
    IN /\ pc \in {"rooted", "panicked"} /\ Len(openings) = 0 /\ gcd(k, p - 1) = 1 =>
             /\ pc = "rooted"
             /\ step \in 0..(k - 1)
             /\ (p + (p - 1) * step) % k = 0
             /\ exp_biguint(precomputed_reduced_evals[1], k, p) = proof
       /\ pc \in {"sbox_done", "panicked"} /\ Len(openings) = W /\ gcd(3, p - 1) = 1 =>
             /\ pc = "sbox_done"
             /\ precomputed_reduced_evals = proof
             /\ \A i \in 1..W : cube_root(cube(proof[i], p), p, instance.debug_assertions).value = proof[i]

\* The cube-root layer has undone the cube layer on a state with more than one
\* value, in a field where the cube root is not the identity.
C30_Witness ==
    /\ pc = "sbox_done"
    /\ instance.order = 11
    /\ proof[1] = 2
    /\ openings[1] = 8
    /\ precomputed_reduced_evals[1] = 2
    /\ proof[2] # proof[1]

====
